---------------------------- MODULE Spec2Model ----------------------------
(* Model of the text-replacement engine of pptxsanitizer:                   *)
(*   src/src/utils/text_processing.py  (TextProcessor)                      *)
(*   src/src/core/pptx_processor.py    (PPTXProcessor, replacement half)    *)
(* A text is a sequence of one-character tokens.  A run is a record of a    *)
(* text and five nullable style fields, a paragraph a sequence of runs, a   *)
(* text frame a sequence of paragraphs, a slide a sequence of shapes.       *)
EXTENDS Integers, Sequences, FiniteSets, TLC

(***************************************************************************)
(* Bounds of the model                                                     *)
(***************************************************************************)
MaxSlides == 2
MaxShapes == 1
MaxFileDets == 1
MaxRunLen == 3
MaxOrigLen == 2
MaxRunDets == 1
MaxOrderDets == 2
MaxSortLen == 2
MaxSortDets == 3
MaxFuzzyLen == 3
MaxFuzzyDets == 1
MaxNormLen == 3
MaxFaultSlides == 2
MaxFaultShapes == 2
MaxMatchText == 3
MaxMatchTerm == 3
MaxCallPairs == 2
MaxCountLen == 2
MaxCountDets == 2
MaxRewriteDets == 1
MaxCells == 3
MaxStyleShapes == 2
MaxEmptyDets == 2
MaxSanSlides == 3
MaxAnalyzerDets == 2
MaxRedactDets == 2
MaxTemplatePairs == 2

(***************************************************************************)
(* Characters                                                              *)
(***************************************************************************)
\* Variant of Whitespace with the ASCII whitespace only, as under re.ASCII:
\* the non-breaking space is then no whitespace (sensitivity of C9)
WhitespaceAscii == {" ", "TAB", "NL"}

\* Characters for which str.isspace() holds and that the regex class \s
\* matches; the non-breaking space U+00A0 is one of them.
Whitespace == {" ", "TAB", "NL", "NBSP"}

\* str.lower() of one character, as re.IGNORECASE compares
Lower(c) == CASE c = "A" -> "a" [] c = "B" -> "b" [] OTHER -> c

\* The None value of a style field
None == "None"

(***************************************************************************)
(* Python string primitives                                                *)
(***************************************************************************)
\* sub in s
Contains(s, sub) ==
  \E i \in 0..(Len(s) - Len(sub)) : SubSeq(s, i + 1, i + Len(sub)) = sub

MatchAt(s, i, old) ==
  /\ i + Len(old) - 1 <= Len(s)
  /\ SubSeq(s, i, i + Len(old) - 1) = old

AllFalse(n) == [k \in 1..n |-> FALSE]
AllTrue(n) == [k \in 1..n |-> TRUE]

\* s.replace(old, new) scanning from position i, for non-empty old: the
\* leftmost occurrence is replaced and the scan resumes after it.  m marks
\* the characters of s that an earlier replacement wrote; hit tells whether
\* a replaced occurrence covered such a character.
RECURSIVE ReplaceFrom(_, _, _, _, _)
ReplaceFrom(s, m, old, new, i) ==
  IF i > Len(s) THEN [text |-> <<>>, mask |-> <<>>, hit |-> FALSE]
  ELSE IF MatchAt(s, i, old)
  THEN LET r == ReplaceFrom(s, m, old, new, i + Len(old))
       IN [text |-> new \o r.text,
           mask |-> AllTrue(Len(new)) \o r.mask,
           hit  |-> r.hit \/ \E j \in i..(i + Len(old) - 1) : m[j]]
  ELSE LET r == ReplaceFrom(s, m, old, new, i + 1)
       IN [text |-> <<s[i]>> \o r.text,
           mask |-> <<m[i]>> \o r.mask,
           hit  |-> r.hit]

\* s.replace("", new): new is inserted before every character and at the end
RECURSIVE Intersperse(_, _, _)
Intersperse(s, new, i) ==
  IF i > Len(s) THEN new ELSE new \o <<s[i]>> \o Intersperse(s, new, i + 1)

\* str.replace with the provenance mask
StrReplaceM(s, m, old, new) ==
  IF old = <<>>
  THEN LET t == Intersperse(s, new, 1)
       IN [text |-> t, mask |-> AllFalse(Len(t)), hit |-> FALSE]
  ELSE ReplaceFrom(s, m, old, new, 1)

\* str.replace
StrReplace(s, old, new) == StrReplaceM(s, AllFalse(Len(s)), old, new).text

(***************************************************************************)
(* TextProcessor                                                           *)
(***************************************************************************)
\* str.strip(): leading and trailing whitespace removed
RECURSIVE LStrip(_)
LStrip(s) ==
  IF s # <<>> /\ Head(s) \in Whitespace THEN LStrip(Tail(s)) ELSE s

RECURSIVE RStrip(_)
RStrip(s) ==
  IF s # <<>> /\ s[Len(s)] \in Whitespace
  THEN RStrip(SubSeq(s, 1, Len(s) - 1)) ELSE s

\* Variant of Strip that removes nothing, as without the call of strip()
\* (sensitivity of C13)
StripNothing(s) == s

Strip(s) == RStrip(LStrip(s))

\* First index at or after i whose character is not whitespace
RECURSIVE SkipWhitespace(_, _)
SkipWhitespace(s, i) ==
  IF i <= Len(s) /\ s[i] \in Whitespace THEN SkipWhitespace(s, i + 1) ELSE i

\* re.sub(r"\s+", " ", s): every maximal whitespace run becomes one space
RECURSIVE CollapseFrom(_, _)
CollapseFrom(s, i) ==
  IF i > Len(s) THEN <<>>
  ELSE IF s[i] \in Whitespace
  THEN <<" ">> \o CollapseFrom(s, SkipWhitespace(s, i))
  ELSE <<s[i]>> \o CollapseFrom(s, i + 1)

CollapseWhitespace(s) == CollapseFrom(s, 1)

\* Variant of MapSpecialChars without the replace of the em dash
\* (sensitivity of C14)
MapSpecialCharsNoEmDash(s) ==
  LET t1 == StrReplace(s,  <<"NBSP">>,   <<" ">>)
      t2 == StrReplace(t1, <<"ENDASH">>, <<"-">>)
      t4 == StrReplace(t2, <<"LDQ">>,    <<"DQ">>)
      t5 == StrReplace(t4, <<"RDQ">>,    <<"DQ">>)
      t6 == StrReplace(t5, <<"LSQ">>,    <<"SQ">>)
      t7 == StrReplace(t6, <<"RSQ">>,    <<"SQ">>)
  IN t7

\* The chain of seven str.replace calls on typographic characters
MapSpecialChars(s) ==
  LET t1 == StrReplace(s,  <<"NBSP">>,   <<" ">>)
      t2 == StrReplace(t1, <<"ENDASH">>, <<"-">>)
      t3 == StrReplace(t2, <<"EMDASH">>, <<"-">>)
      t4 == StrReplace(t3, <<"LDQ">>,    <<"DQ">>)
      t5 == StrReplace(t4, <<"RDQ">>,    <<"DQ">>)
      t6 == StrReplace(t5, <<"LSQ">>,    <<"SQ">>)
      t7 == StrReplace(t6, <<"RSQ">>,    <<"SQ">>)
  IN t7

\* "if not text: return ''" holds for the empty string and for None
normalize_text_for_matching(text) ==
  IF text = <<>> \/ text = <<"<None>">> THEN <<>>
  ELSE MapSpecialChars(CollapseWhitespace(Strip(text)))

\* Characters that re.escape prefixes with a backslash
ReSpecial == {" ", "TAB", "NL", "-", "BSL", "."}

\* Variant of ReEscape that escapes nothing, as without the call of
\* re.escape (sensitivity of C15)
ReEscapeNothing(term) ==
  [i \in 1..Len(term) |-> [ch |-> term[i], esc |-> FALSE]]

\* re.escape: one element per character, escaped when it is special
ReEscape(term) ==
  [i \in 1..Len(term) |-> [ch |-> term[i], esc |-> term[i] \in ReSpecial]]

\* create_flexible_pattern: every escaped space of the escaped term becomes
\* the element \s*.  Of the other elements an escaped character and an
\* ordinary character match that character, and a dot left unescaped
\* would match any character but a line feed.
create_flexible_pattern(search_term) ==
  LET escaped == ReEscape(search_term)
  IN [i \in 1..Len(escaped) |->
        IF escaped[i].esc /\ escaped[i].ch = " "
        THEN [kind |-> "ws*", ch |-> " "]
        ELSE IF ~escaped[i].esc /\ escaped[i].ch = "."
        THEN [kind |-> "any", ch |-> "."]
        ELSE [kind |-> "lit", ch |-> escaped[i].ch]]

\* End (exclusive) of a match of pattern elements j.. at text position i
\* under re.IGNORECASE, or 0 when there is none.  \s* is greedy: the longest
\* whitespace run that lets the rest of the pattern match is taken.
RECURSIVE MatchEnd(_, _, _, _)
MatchEnd(s, i, pat, j) ==
  IF j > Len(pat) THEN i
  ELSE IF pat[j].kind = "ws*"
  THEN LET top == SkipWhitespace(s, i)
           ok == {k \in i..top : MatchEnd(s, k, pat, j + 1) # 0}
       IN IF ok = {} THEN 0
          ELSE MatchEnd(s, CHOOSE k \in ok : \A l \in ok : l <= k, pat, j + 1)
  ELSE IF /\ i <= Len(s)
          /\ IF pat[j].kind = "any" THEN s[i] # "NL"
             ELSE Lower(s[i]) = Lower(pat[j].ch)
  THEN MatchEnd(s, i + 1, pat, j + 1)
  ELSE 0

\* re.search(pattern, text, re.IGNORECASE)
ReSearch(pat, s) == \E i \in 1..(Len(s) + 1) : MatchEnd(s, i, pat, 1) # 0

is_flexible_match(text, search_term) ==
  ReSearch(create_flexible_pattern(search_term), text)

\* The replacement template of re.sub: a backslash starts an escape.
\* \\ is a backslash, \a and \b are the control characters, a backslash
\* before any other ASCII letter or at the end of the template is a
\* "bad escape" error, and before any other character it is kept.
RECURSIVE ExpandTemplate(_, _)
ExpandTemplate(repl, i) ==
  IF i > Len(repl) THEN [ok |-> TRUE, text |-> <<>>]
  ELSE IF repl[i] # "BSL"
  THEN LET r == ExpandTemplate(repl, i + 1)
       IN [ok |-> r.ok, text |-> <<repl[i]>> \o r.text]
  ELSE IF i = Len(repl) THEN [ok |-> FALSE, text |-> <<>>]
  ELSE LET c == repl[i + 1]
           r == ExpandTemplate(repl, i + 2)
       IN CASE c = "BSL" -> [ok |-> r.ok, text |-> <<"BSL">> \o r.text]
            [] c = "a"   -> [ok |-> r.ok, text |-> <<"BEL">> \o r.text]
            [] c = "b"   -> [ok |-> r.ok, text |-> <<"BS">> \o r.text]
            [] c \in {"A", "B"} -> [ok |-> FALSE, text |-> <<>>]
            [] OTHER     -> [ok |-> r.ok, text |-> <<"BSL", c>> \o r.text]

\* Substitution of every non-overlapping match, leftmost first; new is the
\* expanded template.  The pattern of a non-empty normalized term never
\* matches the empty string.
RECURSIVE SubFrom(_, _, _, _, _)
SubFrom(s, m, pat, new, i) ==
  IF i > Len(s) THEN [text |-> <<>>, mask |-> <<>>, hit |-> FALSE]
  ELSE LET e == MatchEnd(s, i, pat, 1)
       IN IF e > i
          THEN LET r == SubFrom(s, m, pat, new, e)
               IN [text |-> new \o r.text,
                   mask |-> AllTrue(Len(new)) \o r.mask,
                   hit  |-> r.hit \/ \E k \in i..(e - 1) : m[k]]
          ELSE LET r == SubFrom(s, m, pat, new, i + 1)
               IN [text |-> <<s[i]>> \o r.text,
                   mask |-> <<m[i]>> \o r.mask,
                   hit  |-> r.hit]

\* re.sub(pattern, repl, s, flags=re.IGNORECASE); raised tells that the
\* template was rejected with re.error
ReSubM(pat, repl, s, m) ==
  LET t == ExpandTemplate(repl, 1)
  IN IF ~t.ok
     THEN [text |-> s, mask |-> m, hit |-> FALSE, raised |-> TRUE]
     ELSE LET r == SubFrom(s, m, pat, t.text, 1)
          IN [text |-> r.text, mask |-> r.mask, hit |-> r.hit,
              raised |-> FALSE]

\* The running state st of the loop of apply_fuzzy_replacements after the
\* iteration of pair that took it from the state before: the iteration is
\* entered in steps with the text before and after it and the branch taken
StepLogged(before, st, pair, branch) ==
  [st EXCEPT !.steps = Append(@, [pair |-> pair, branch |-> branch,
                                  before |-> before.new_text,
                                  after |-> st.new_text])]

\* The branch "if normalized_original in normalized_text"
NormalizedBranch(st, pair) ==
  LET r == StrReplaceM(st.new_text, st.mask, pair[1], pair[2])
  IN StepLogged(st, [st EXCEPT !.new_text = r.text, !.mask = r.mask,
                               !.replacements = Append(@, pair),
                               !.rewrote = @ \/ r.hit,
                               !.normalized = TRUE],
                pair, "normalized")

\* The branch "elif self.is_flexible_match(...)"
FlexibleBranch(st, pair, normalized_original) ==
  LET r == ReSubM(create_flexible_pattern(normalized_original),
                  pair[2], st.new_text, st.mask)
  IN IF r.raised
     THEN StepLogged(st, [st EXCEPT !.raised = TRUE, !.flexible = TRUE],
                     pair, "raised")
     ELSE StepLogged(st, [st EXCEPT !.new_text = r.text, !.mask = r.mask,
                                    !.replacements = Append(@, pair),
                                    !.rewrote = @ \/ r.hit,
                                    !.flexible = TRUE],
                     pair, "flexible")

\* Variant of FuzzyStep without "if not original: continue"
\* (sensitivity of C16)
FuzzyStepNoSkip(st, pair) ==
  LET normalized_text == normalize_text_for_matching(st.new_text)
      normalized_original == normalize_text_for_matching(pair[1])
  IN IF st.raised THEN st
     ELSE IF Contains(normalized_text, normalized_original)
     THEN NormalizedBranch(st, pair)
     ELSE IF is_flexible_match(normalized_text, normalized_original)
     THEN FlexibleBranch(st, pair, normalized_original)
     ELSE StepLogged(st, st, pair, "none")

\* Variant of FuzzyStep that tries the flexible pattern before the
\* normalized substring (sensitivity of C17)
FuzzyStepFlexibleFirst(st, pair) ==
  LET normalized_text == normalize_text_for_matching(st.new_text)
      normalized_original == normalize_text_for_matching(pair[1])
  IN IF st.raised THEN st
     ELSE IF pair[1] = <<>> \/ pair[1] = <<"<None>">>
     THEN StepLogged(st, st, pair, "skipped")
     ELSE IF is_flexible_match(normalized_text, normalized_original)
     THEN FlexibleBranch(st, pair, normalized_original)
     ELSE IF Contains(normalized_text, normalized_original)
     THEN NormalizedBranch(st, pair)
     ELSE StepLogged(st, st, pair, "none")

\* One iteration of the loop of apply_fuzzy_replacements.  st is the
\* running state: new_text, its provenance mask, applied_replacements,
\* whether a pair rewrote an earlier pair's output, whether the normalized
\* and the flexible branch were taken, whether an exception escaped, and
\* the iterations gone through.
FuzzyStep(st, pair) ==
  LET normalized_text == normalize_text_for_matching(st.new_text)
      normalized_original == normalize_text_for_matching(pair[1])
  IN IF st.raised THEN st
     ELSE IF pair[1] = <<>> \/ pair[1] = <<"<None>">>
     THEN StepLogged(st, st, pair, "skipped")
     ELSE IF Contains(normalized_text, normalized_original)
     THEN NormalizedBranch(st, pair)
     ELSE IF is_flexible_match(normalized_text, normalized_original)
     THEN FlexibleBranch(st, pair, normalized_original)
     ELSE StepLogged(st, st, pair, "none")

RECURSIVE FuzzyLoop(_, _, _)
FuzzyLoop(st, pairs, i) ==
  IF i > Len(pairs) THEN st
  ELSE FuzzyLoop(FuzzyStep(st, pairs[i]), pairs, i + 1)

apply_fuzzy_replacements(text, sorted_replacements) ==
  FuzzyLoop([new_text |-> text, mask |-> AllFalse(Len(text)),
             replacements |-> <<>>, rewrote |-> FALSE,
             normalized |-> FALSE, flexible |-> FALSE, raised |-> FALSE,
             steps |-> <<>>],
            sorted_replacements, 1)

(***************************************************************************)
(* PPTXProcessor: replacement in one text frame                            *)
(***************************************************************************)
\* Python truth value of a style field value
Truthy(v) == v \notin {None, "", "0"}

\* The five style fields of a run, as run.font exposes them
StyleOf(run) ==
  [size |-> run.size, name |-> run.name, bold |-> run.bold,
   italic |-> run.italic, color |-> run.color]

\* A run as p.text = ... creates it: no explicit style
NewRun(text) ==
  [text |-> text, size |-> None, name |-> None, bold |-> None,
   italic |-> None, color |-> None]

\* Whether the assignment "run.font.color.rgb = ..." raises in this call
VARIABLE color_setter_raises

\* Variant of RestoreStyle that assigns bold from the captured italic
\* (sensitivity of C6)
RestoreStyleSwapped(run, captured) ==
  [run EXCEPT
     !.size   = IF Truthy(captured.size) THEN captured.size ELSE @,
     !.name   = IF Truthy(captured.name) THEN captured.name ELSE @,
     !.bold   = IF captured.italic # None THEN captured.italic ELSE @,
     !.italic = IF captured.italic # None THEN captured.italic ELSE @,
     !.color  = IF Truthy(captured.color) /\ ~color_setter_raises
                THEN captured.color ELSE @]

\* Variant of RestoreStyle with one handler around all five assignments,
\* the colour first: when the colour cannot be assigned no field is
\* restored (sensitivity of C24)
RestoreStyleAllOrNothing(run, captured) ==
  IF Truthy(captured.color) /\ color_setter_raises THEN run
  ELSE [run EXCEPT
          !.size   = IF Truthy(captured.size) THEN captured.size ELSE @,
          !.name   = IF Truthy(captured.name) THEN captured.name ELSE @,
          !.bold   = IF captured.bold # None THEN captured.bold ELSE @,
          !.italic = IF captured.italic # None THEN captured.italic ELSE @,
          !.color  = IF Truthy(captured.color) THEN captured.color ELSE @]

\* "Restore original formatting": each captured field is assigned back
\* when its guard holds (truthiness for size, name and colour, not-None for
\* bold and italic).  The colour comes last, in a try whose except clause
\* passes: when the assignment raises the run keeps the colour it has.
RestoreStyle(run, captured) ==
  [run EXCEPT
     !.size   = IF Truthy(captured.size) THEN captured.size ELSE @,
     !.name   = IF Truthy(captured.name) THEN captured.name ELSE @,
     !.bold   = IF captured.bold # None THEN captured.bold ELSE @,
     !.italic = IF captured.italic # None THEN captured.italic ELSE @,
     !.color  = IF Truthy(captured.color) /\ ~color_setter_raises
                THEN captured.color ELSE @]

\* Variant of LiteralStep without the test "original and": a pair is
\* applied whenever "original in new_text" holds (sensitivity of C25)
LiteralStepUnguarded(st, pair) ==
  IF Contains(st.text, pair[1])
  THEN LET r == StrReplaceM(st.text, st.mask, pair[1], pair[2])
       IN [text |-> r.text, mask |-> r.mask,
           applied |-> Append(st.applied, pair),
           rewrote |-> st.rewrote \/ r.hit]
  ELSE st

\* One iteration of "for original, replacement in sorted_replacements" of
\* the literal passes: st is new_text with its provenance mask, the pairs
\* applied so far and whether a pair rewrote an earlier pair's output
LiteralStep(st, pair) ==
  LET original == pair[1]
      replacement == pair[2]
  IN IF original # <<>> /\ Contains(st.text, original)
     THEN LET r == StrReplaceM(st.text, st.mask, original, replacement)
          IN [text |-> r.text, mask |-> r.mask,
              applied |-> Append(st.applied, pair),
              rewrote |-> st.rewrote \/ r.hit]
     ELSE st

RECURSIVE LiteralLoop(_, _, _)
LiteralLoop(st, pairs, i) ==
  IF i > Len(pairs) THEN st
  ELSE LiteralLoop(LiteralStep(st, pairs[i]), pairs, i + 1)

LiteralPass(text, pairs) ==
  LiteralLoop([text |-> text, mask |-> AllFalse(Len(text)),
               applied |-> <<>>, rewrote |-> FALSE], pairs, 1)

\* Variant of UpdateRun that counts the run when a pair fired in it,
\* whether or not its text differs in the end (sensitivity of C18)
UpdateRunCountsFiring(run, pass) ==
  IF pass.applied # <<>>
  THEN [run |-> RestoreStyle([run EXCEPT !.text = pass.text], StyleOf(run)),
        changed |-> TRUE, rewrote |-> pass.rewrote]
  ELSE [run |-> run, changed |-> FALSE, rewrote |-> pass.rewrote]

\* "if new_text != original_text": the text is set and the style captured
\* before is restored, and the run counts as changed
UpdateRun(run, pass) ==
  IF pass.text # run.text
  THEN [run |-> RestoreStyle([run EXCEPT !.text = pass.text], StyleOf(run)),
        changed |-> TRUE, rewrote |-> pass.rewrote]
  ELSE [run |-> run, changed |-> FALSE, rewrote |-> pass.rewrote]

\* Phase A on one run: the body of "for run in paragraph.runs"
RunPhaseA(run, sorted_replacements) ==
  IF run.text = <<>> THEN [run |-> run, changed |-> FALSE, rewrote |-> FALSE]
  ELSE UpdateRun(run, LiteralPass(run.text, sorted_replacements))

\* Phase A on a whole frame: every run of every paragraph, in place
PhaseA(text_frame, sorted_replacements) ==
  [p \in 1..Len(text_frame) |->
     [r \in 1..Len(text_frame[p]) |->
        RunPhaseA(text_frame[p][r], sorted_replacements)]]

MaxRunsOf(a) ==
  IF a = <<>> THEN 0
  ELSE CHOOSE n \in {Len(a[p]) : p \in 1..Len(a)} :
         \A p \in 1..Len(a) : Len(a[p]) <= n

\* Number of runs of the frame that Phase A changed
PhaseACount(a) ==
  Cardinality({pr \in {<<p, r>> : p \in 1..Len(a), r \in 1..MaxRunsOf(a)} :
                 pr[2] <= Len(a[pr[1]]) /\ a[pr[1]][pr[2]].changed})

\* paragraph.text: the texts of the runs, concatenated
RECURSIVE ParagraphText(_, _)
ParagraphText(paragraph, r) ==
  IF r > Len(paragraph) THEN <<>>
  ELSE paragraph[r].text \o ParagraphText(paragraph, r + 1)

\* text_frame.text: the paragraph texts joined by a line feed
RECURSIVE FrameTextFrom(_, _)
FrameTextFrom(text_frame, p) ==
  IF p > Len(text_frame) THEN <<>>
  ELSE IF p = Len(text_frame) THEN ParagraphText(text_frame[p], 1)
  ELSE ParagraphText(text_frame[p], 1) \o <<"NL">>
         \o FrameTextFrom(text_frame, p + 1)

FrameText(text_frame) == FrameTextFrom(text_frame, 1)

\* A line break of a paragraph, an element that is no run; paragraph.text
\* reads it as a vertical tab
LineBreak ==
  [text |-> <<"VT">>, size |-> None, name |-> None, bold |-> None,
   italic |-> None, color |-> None]

IsRun(item) == item # LineBreak

\* The run that holds a line of text; an empty line gets no run
LineRun(line) == IF line = <<>> THEN <<>> ELSE <<NewRun(line)>>

\* "p.text = ..." on the cleared paragraph, as python-pptx does it: the
\* text is split at every line feed and vertical tab, each non-empty line
\* becomes a run and a line break is put between consecutive lines
RECURSIVE AppendText(_, _, _)
AppendText(text, i, line) ==
  IF i > Len(text) THEN LineRun(line)
  ELSE IF text[i] \in {"NL", "VT"}
  THEN LineRun(line) \o <<LineBreak>> \o AppendText(text, i + 1, <<>>)
  ELSE AppendText(text, i + 1, Append(line, text[i]))

\* The index of p.runs[0] among the elements of a paragraph, 0 if it has
\* no run
FirstRun(paragraph) ==
  IF \A k \in 1..Len(paragraph) : ~IsRun(paragraph[k]) THEN 0
  ELSE CHOOSE k \in 1..Len(paragraph) :
         IsRun(paragraph[k]) /\ \A j \in 1..(k - 1) : ~IsRun(paragraph[j])

\* "if original_font_props and p.runs": the captured style is put on the
\* first run of the rewritten paragraph
RestoreFirstRun(paragraph, has_props, captured) ==
  IF has_props /\ FirstRun(paragraph) # 0
  THEN [paragraph EXCEPT ![FirstRun(paragraph)] = RestoreStyle(@, captured)]
  ELSE paragraph

\* Phase B rewrite: the style of the first run of the first paragraph is
\* captured when there is one, text_frame.clear() leaves one empty
\* paragraph, "p.text = new_full_text" fills it and the captured style is
\* put on its first run
RewriteFrame(text_frame, new_full_text) ==
  IF text_frame # <<>> /\ text_frame[1] # <<>>
  THEN <<RestoreFirstRun(AppendText(new_full_text, 1, <<>>), TRUE,
                         StyleOf(text_frame[1][1]))>>
  ELSE <<AppendText(new_full_text, 1, <<>>)>>

\* What one call of _apply_replacements_to_text_frame did, besides the
\* frame it leaves and the count it returns
NoFrameLog ==
  [phaseA |-> 0, phaseB |-> FALSE, literal |-> 0, fuzzy |-> FALSE,
   flexible |-> FALSE, cleared |-> FALSE, rewrote |-> FALSE]

\* Variant of PhaseBOutcome that counts a rewrite as one replacement
\* (sensitivity of C19)
PhaseBOutcomeCountsOne(text_frame, full_text, out, log) ==
  IF out.raised
  THEN [frame |-> text_frame, count |-> 0, raised |-> TRUE, log |-> log]
  ELSE IF out.applied # <<>> /\ out.text # full_text
  THEN [frame |-> RewriteFrame(text_frame, out.text),
        count |-> 1, raised |-> FALSE,
        log |-> [log EXCEPT !.cleared = TRUE]]
  ELSE [frame |-> text_frame, count |-> 0, raised |-> FALSE, log |-> log]

\* "if applied_replacements and new_full_text != full_text": the rewrite
\* and the count of applied pairs, or nothing.  out holds new_full_text
\* and applied_replacements of the literal pass or of the fuzzy fallback.
PhaseBOutcome(text_frame, full_text, out, log) ==
  IF out.raised
  THEN [frame |-> text_frame, count |-> 0, raised |-> TRUE, log |-> log]
  ELSE IF out.applied # <<>> /\ out.text # full_text
  THEN [frame |-> RewriteFrame(text_frame, out.text),
        count |-> Len(out.applied), raised |-> FALSE,
        log |-> [log EXCEPT !.cleared = TRUE]]
  ELSE [frame |-> text_frame, count |-> 0, raised |-> FALSE, log |-> log]

PhaseBUpdate(text_frame, full_text, out, log) ==
  PhaseBOutcome(text_frame, full_text, out,
                [log EXCEPT !.rewrote = out.rewrote,
                            !.flexible = out.flexible])

\* The outcome of the fuzzy fallback, in the shape of a literal pass
FuzzyOutcome(fz) ==
  [text |-> fz.new_text, applied |-> fz.replacements, raised |-> fz.raised,
   rewrote |-> fz.rewrote, flexible |-> fz.flexible]

\* "if not applied_replacements": the fuzzy fallback replaces the outcome
\* of a literal pass that applied no pair
PhaseBFallback(text_frame, sorted_replacements, full_text, pass) ==
  IF pass.applied = <<>>
  THEN PhaseBUpdate(text_frame, full_text,
         FuzzyOutcome(apply_fuzzy_replacements(full_text,
                                               sorted_replacements)),
         [NoFrameLog EXCEPT !.phaseB = TRUE, !.fuzzy = TRUE])
  ELSE PhaseBUpdate(text_frame, full_text,
         [text |-> pass.text, applied |-> pass.applied, raised |-> FALSE,
          rewrote |-> pass.rewrote, flexible |-> FALSE],
         [NoFrameLog EXCEPT !.phaseB = TRUE, !.literal = Len(pass.applied)])

\* Phase B: the literal pass over the full text of the frame
PhaseB(text_frame, sorted_replacements, full_text) ==
  IF full_text = <<>>
  THEN [frame |-> text_frame, count |-> 0, raised |-> FALSE,
        log |-> NoFrameLog]
  ELSE PhaseBFallback(text_frame, sorted_replacements, full_text,
                      LiteralPass(full_text, sorted_replacements))

\* Variant of FrameOf that rebuilds each paragraph from the runs that hold
\* text, dropping the empty ones (sensitivity of C21)
FrameOfDropsEmptyRuns(a) ==
  [p \in 1..Len(a) |->
     LET kept == SelectSeq(a[p], LAMBDA o : o.run.text # <<>>)
     IN [r \in 1..Len(kept) |-> kept[r].run]]

\* The frame as Phase A leaves it
FrameOf(a) == [p \in 1..Len(a) |-> [r \in 1..Len(a[p]) |-> a[p][r].run]]

\* Variant of AfterPhaseA without the guard "if not replacements_made":
\* Phase B always follows Phase A (sensitivity of C5)
PhasesMerged(replacements_made, b) ==
  [b EXCEPT !.count = IF b.log.cleared THEN b.count ELSE replacements_made,
            !.log.phaseA = replacements_made]

AfterPhaseAUnguarded(text_frame, sorted_replacements, a, replacements_made) ==
  PhasesMerged(replacements_made,
               PhaseB(FrameOf(a), sorted_replacements, FrameText(FrameOf(a))))

\* "if not replacements_made": Phase B is entered only when Phase A, whose
\* per-run outcomes are a, changed no run
AfterPhaseA(text_frame, sorted_replacements, a, replacements_made) ==
  IF replacements_made # 0
  THEN [frame |-> FrameOf(a),
        count |-> replacements_made, raised |-> FALSE,
        log |-> [NoFrameLog EXCEPT
                   !.phaseA = replacements_made,
                   !.rewrote = \E p \in 1..Len(a) :
                                 \E r \in 1..Len(a[p]) : a[p][r].rewrote]]
  ELSE PhaseB(text_frame, sorted_replacements, FrameText(text_frame))

CountPhaseA(text_frame, sorted_replacements, a) ==
  AfterPhaseA(text_frame, sorted_replacements, a, PhaseACount(a))

_apply_replacements_to_text_frame(text_frame, sorted_replacements) ==
  IF text_frame = <<>>
  THEN [frame |-> text_frame, count |-> 0, raised |-> FALSE,
        log |-> NoFrameLog]
  ELSE CountPhaseA(text_frame, sorted_replacements,
                   PhaseA(text_frame, sorted_replacements))

(***************************************************************************)
(* PPTXProcessor: shapes and slides                                        *)
(***************************************************************************)
\* The accumulation of one processed frame into the running outcome of the
\* frames of a shape
FrameDone(acc, i, f) ==
  [frames |-> [acc.frames EXCEPT ![i] = f.frame],
   count  |-> acc.count + f.count,
   raised |-> f.raised,
   logs   |-> Append(acc.logs, f.log)]

\* The text frames of a shape in the order they are processed.  A shape is
\* [kind, frames]: a text shape holds its one text frame, a table the text
\* frames of its cells row by row, a chart its text frame if it has that
\* attribute, any other shape none.  An exception of a frame leaves the
\* loop.
RECURSIVE FramesLoop(_, _, _, _)
FramesLoop(acc, frames, sorted_replacements, i) ==
  IF i > Len(frames) \/ acc.raised THEN acc
  ELSE FramesLoop(FrameDone(acc, i,
                    _apply_replacements_to_text_frame(frames[i],
                                                      sorted_replacements)),
                  frames, sorted_replacements, i + 1)

\* _apply_replacements_to_table: every cell in turn
_apply_replacements_to_table(frames, sorted_replacements) ==
  FramesLoop([frames |-> frames, count |-> 0, raised |-> FALSE,
              logs |-> <<>>], frames, sorted_replacements, 1)

\* Variant of ShapeOutcome that returns the count reached when the
\* exception was raised (sensitivity of C11)
ShapeOutcomeKeepsCount(shape, r) ==
  [shape  |-> [shape EXCEPT !.frames = r.frames],
   count  |-> r.count,
   caught |-> r.raised,
   logs   |-> r.logs]

\* The try/except of _apply_replacements_to_shape: an exception is caught
\* and the shape counts 0
ShapeOutcome(shape, r) ==
  [shape  |-> [shape EXCEPT !.frames = r.frames],
   count  |-> IF r.raised THEN 0 ELSE r.count,
   caught |-> r.raised,
   logs   |-> r.logs]

\* _apply_replacements_to_shape: dispatch on the kind of shape
_apply_replacements_to_shape(shape, sorted_replacements) ==
  IF shape.kind \in {"text", "table", "chart"}
  THEN ShapeOutcome(shape, _apply_replacements_to_table(shape.frames,
                                                        sorted_replacements))
  ELSE [shape |-> shape, count |-> 0, caught |-> FALSE, logs |-> <<>>]

\* The value of a detection's original that is not a string
NoneObject == <<"<None>">>

\* len(x[0]), the sort key; it raises TypeError for None
LenRaises(pair) == pair[1] = NoneObject

\* The pairs built from the detections: (original, replacement), or
\* (text, replacement) for an object with a text attribute instead;
\* objects with neither are passed over
RECURSIVE BuildPairs(_, _)
BuildPairs(detections, i) ==
  IF i > Len(detections) THEN <<>>
  ELSE IF detections[i].attr \in {"original", "text"}
  THEN <<<<detections[i].value, detections[i].replacement>>>>
         \o BuildPairs(detections, i + 1)
  ELSE BuildPairs(detections, i + 1)

\* sorted(replacements, key=len of original, reverse=True): a stable sort,
\* each pair is placed behind all pairs whose original is at least as long
InsertAt(sorted, pair, k) ==
  SubSeq(sorted, 1, k) \o <<pair>> \o SubSeq(sorted, k + 1, Len(sorted))

\* Variant of InsertByLength that places a pair before the pairs whose
\* original has the same length (sensitivity of C3)
InsertByLengthBeforeTies(sorted, pair) ==
  InsertAt(sorted, pair,
           Cardinality({j \in 1..Len(sorted) :
                          Len(sorted[j][1]) > Len(pair[1])}))

InsertByLength(sorted, pair) ==
  InsertAt(sorted, pair,
           Cardinality({j \in 1..Len(sorted) :
                          Len(sorted[j][1]) >= Len(pair[1])}))

RECURSIVE SortFrom(_, _, _)
SortFrom(sorted, replacements, i) ==
  IF i > Len(replacements) THEN sorted
  ELSE SortFrom(InsertByLength(sorted, replacements[i]), replacements, i + 1)

SortedByLength(replacements) == SortFrom(<<>>, replacements, 1)

\* The accumulation of one processed shape into the outcome of the slide
ShapeDone(acc, i, r) ==
  [slide |-> [acc.slide EXCEPT ![i] = r.shape],
   count |-> acc.count + r.count,
   logs  |-> Append(acc.logs, [count |-> r.count, caught |-> r.caught,
                               frames |-> r.logs])]

\* "for shape in slide.shapes"
RECURSIVE ShapesLoop(_, _, _, _)
ShapesLoop(acc, shapes, sorted_replacements, i) ==
  IF i > Len(shapes) THEN acc
  ELSE ShapesLoop(ShapeDone(acc, i,
                    _apply_replacements_to_shape(shapes[i],
                                                 sorted_replacements)),
                  shapes, sorted_replacements, i + 1)

\* Variant of Untouched that returns the number of shapes of the slide
\* (sensitivity of C7)
UntouchedCountsShapes(slide) ==
  [slide |-> slide, count |-> Len(slide), raised |-> FALSE, handed |-> <<>>,
   called |-> FALSE, logs |-> <<>>]

\* What _apply_replacements_to_slide returns when it touches nothing
Untouched(slide) ==
  [slide |-> slide, count |-> 0, raised |-> FALSE, handed |-> <<>>,
   called |-> FALSE, logs |-> <<>>]

SlideOutcome(r, sorted_replacements) ==
  [slide |-> r.slide, count |-> r.count, raised |-> FALSE,
   handed |-> sorted_replacements, called |-> TRUE, logs |-> r.logs]

\* The shapes of the slide are given the sorted pairs
ApplySorted(slide, sorted_replacements) ==
  SlideOutcome(ShapesLoop([slide |-> slide, count |-> 0, logs |-> <<>>],
                          slide, sorted_replacements, 1),
               sorted_replacements)

\* The part of _apply_replacements_to_slide after the pairs are built; the
\* sort raises when the key of a pair cannot be computed
SortAndApply(slide, replacements) ==
  IF replacements = <<>> THEN Untouched(slide)
  ELSE IF \E i \in 1..Len(replacements) : LenRaises(replacements[i])
  THEN [Untouched(slide) EXCEPT !.raised = TRUE]
  ELSE ApplySorted(slide, SortedByLength(replacements))

\* _apply_replacements_to_slide.  handed is the pair sequence given to the
\* shapes; raised tells that the sort raised and nothing was touched.
_apply_replacements_to_slide(slide, detections) ==
  IF detections = <<>> THEN Untouched(slide)
  ELSE SortAndApply(slide, BuildPairs(detections, 1))

(***************************************************************************)
(* State                                                                   *)
(***************************************************************************)
VARIABLES
  input_file,             \* the presentation stored under input_file
  all_detections,         \* argument: slide number -> list of detections
  pc,                     \* position in apply_replacements_to_file
  presentation,           \* the loaded document, a sequence of slides
  slide_idx,              \* number of slides the loop has gone through
  total_replacements,     \* local of apply_replacements_to_file
  replacements_by_slide,  \* local of apply_replacements_to_file
  output_file,            \* what presentation.save wrote, one entry per save
  result,                 \* the returned dictionary
  calls,                  \* history: what each loop iteration did
  norm_in,                \* argument of normalize_text_for_matching
  norm_out,               \* its returned value, once called
  match_text,             \* arguments of is_flexible_match
  match_term,
  match_out,              \* its returned value in a tuple, once called
  fuzzy_text,             \* arguments of apply_fuzzy_replacements
  fuzzy_pairs,
  fuzzy_out,              \* its returned dictionary in a tuple, once called
  san_pc,                 \* position in sanitize_presentation
  images_dir,             \* the slide numbers that have a rendered image
  slides_data,            \* what parse_presentation returned
  san_detections,         \* all_detections of sanitize_presentation
  analyses,               \* history: what the analyzer did for each slide
  report                  \* the SanitizationReport in a tuple, once built

vars == <<input_file, all_detections, pc, presentation, slide_idx,
          total_replacements, replacements_by_slide, output_file, result,
          calls, color_setter_raises, norm_in, norm_out, match_text,
          match_term, match_out,
          fuzzy_text, fuzzy_pairs, fuzzy_out, san_pc, images_dir,
          slides_data, san_detections, analyses, report>>

\* The locals and the surroundings of sanitize_presentation
sanVars == <<san_pc, images_dir, slides_data, san_detections, analyses,
             report>>

\* The arguments and results of the calls of the TextProcessor methods
normVars == <<norm_in, norm_out>>
matchVars == <<match_text, match_term, match_out>>
fuzzyVars == <<fuzzy_text, fuzzy_pairs, fuzzy_out>>

fileVars == <<input_file, all_detections, pc, presentation, slide_idx,
              total_replacements, replacements_by_slide, output_file,
              result, calls, color_setter_raises, sanVars>>

(***************************************************************************)
(* apply_replacements_to_file                                              *)
(***************************************************************************)
NoResult ==
  [success |-> FALSE, total_replacements |-> 0,
   replacements_by_slide |-> <<>>, error |-> "not returned"]

\* The dictionary of the except clause
FailureResult(e) ==
  [success |-> FALSE, total_replacements |-> 0,
   replacements_by_slide |-> <<>>, error |-> e]

\* Variant of Except in which the exception leaves the function
\* (sensitivity of C10)
ExceptPropagates(e) ==
  /\ pc' = "raised"
  /\ result' = result

\* Where control goes when the try body raises e: the except clause
\* returns the failure dictionary
Except(e) ==
  /\ pc' = "returned"
  /\ result' = FailureResult(e)

\* presentation = Presentation(input_file), which may raise
Load ==
  /\ pc = "start"
  /\ \E ok \in BOOLEAN :
       IF ok
       THEN /\ presentation' = input_file
            /\ pc' = "loop"
            /\ UNCHANGED result
       ELSE /\ Except("load failed")
            /\ UNCHANGED presentation
  /\ slide_idx' = 0
  /\ total_replacements' = 0
  /\ replacements_by_slide' = <<>>
  /\ UNCHANGED <<sanVars, color_setter_raises, input_file, all_detections,
                 output_file, calls,
                 normVars, matchVars, fuzzyVars>>

\* The history entry of one loop iteration
CallEntry(slide_number, in_map, detections, r) ==
  [slide_number |-> slide_number, in_map |-> in_map,
   detections |-> detections, count |-> r.count, raised |-> r.raised,
   handed |-> r.handed, called |-> r.called, logs |-> r.logs]

\* replacements_by_slide[slide_number] = n
SetSlideCount(by_slide, slide_number, n) ==
  [k \in DOMAIN by_slide \cup {slide_number} |->
     IF k = slide_number THEN n ELSE by_slide[k]]

\* Variant of SlideInMap with "total_replacements = replacements_made"
\* for "+=" (sensitivity of C8)
SlideInMapOverwrites(slide_number, r) ==
  IF r.raised
  THEN /\ Except("slide failed")
       /\ UNCHANGED <<presentation, slide_idx, total_replacements,
                      replacements_by_slide>>
  ELSE /\ presentation' = [presentation EXCEPT ![slide_number] = r.slide]
       /\ total_replacements' = r.count
       /\ replacements_by_slide' =
            SetSlideCount(replacements_by_slide, slide_number, r.count)
       /\ slide_idx' = slide_idx + 1
       /\ UNCHANGED <<pc, result>>

\* The body of the loop for a slide that is in all_detections, r being what
\* _apply_replacements_to_slide did; its exception leaves the try body
SlideInMap(slide_number, r) ==
  IF r.raised
  THEN /\ Except("slide failed")
       /\ UNCHANGED <<presentation, slide_idx, total_replacements,
                      replacements_by_slide>>
  ELSE /\ presentation' = [presentation EXCEPT ![slide_number] = r.slide]
       /\ total_replacements' = total_replacements + r.count
       /\ replacements_by_slide' =
            SetSlideCount(replacements_by_slide, slide_number, r.count)
       /\ slide_idx' = slide_idx + 1
       /\ UNCHANGED <<pc, result>>

\* The else branch: the slide has no entry in all_detections
SlideNotInMap(slide_number) ==
  /\ replacements_by_slide' =
       SetSlideCount(replacements_by_slide, slide_number, 0)
  /\ slide_idx' = slide_idx + 1
  /\ UNCHANGED <<presentation, total_replacements, pc, result>>

LoopBody(slide_number, in_map, detections, r) ==
  /\ IF in_map THEN SlideInMap(slide_number, r)
     ELSE SlideNotInMap(slide_number)
  /\ calls' = Append(calls, CallEntry(slide_number, in_map, detections, r))

\* One iteration of "for slide_idx, slide in enumerate(presentation.slides)"
ProcessSlide ==
  /\ pc = "loop"
  /\ slide_idx < Len(presentation)
  /\ IF (slide_idx + 1) \in DOMAIN all_detections
     THEN LoopBody(slide_idx + 1, TRUE, all_detections[slide_idx + 1],
                   _apply_replacements_to_slide(
                     presentation[slide_idx + 1],
                     all_detections[slide_idx + 1]))
     ELSE LoopBody(slide_idx + 1, FALSE, <<>>,
                   Untouched(presentation[slide_idx + 1]))
  /\ UNCHANGED <<sanVars, color_setter_raises, input_file, all_detections,
                 output_file,
                 normVars, matchVars, fuzzyVars>>

\* Variant of Save placed inside the loop body: the document is saved and
\* the result returned after any slide (sensitivity of C12)
SaveInsideLoop ==
  /\ pc = "loop"
  /\ slide_idx <= Len(presentation)
  /\ \E ok \in BOOLEAN :
       IF ok
       THEN /\ output_file' = Append(output_file, presentation)
            /\ pc' = "returned"
            /\ result' = [success |-> TRUE,
                          total_replacements |-> total_replacements,
                          replacements_by_slide |-> replacements_by_slide,
                          error |-> ""]
       ELSE /\ Except("save failed")
            /\ UNCHANGED output_file
  /\ UNCHANGED <<sanVars, color_setter_raises, input_file, all_detections,
                 presentation, slide_idx,
                 total_replacements, replacements_by_slide, calls,
                 normVars, matchVars, fuzzyVars>>

\* presentation.save(output_file), which may raise, and the return
Save ==
  /\ pc = "loop"
  /\ slide_idx = Len(presentation)
  /\ \E ok \in BOOLEAN :
       IF ok
       THEN /\ output_file' = Append(output_file, presentation)
            /\ pc' = "returned"
            /\ result' = [success |-> TRUE,
                          total_replacements |-> total_replacements,
                          replacements_by_slide |-> replacements_by_slide,
                          error |-> ""]
       ELSE /\ Except("save failed")
            /\ UNCHANGED output_file
  /\ UNCHANGED <<sanVars, color_setter_raises, input_file, all_detections,
                 presentation, slide_idx,
                 total_replacements, replacements_by_slide, calls,
                 normVars, matchVars, fuzzyVars>>

Next == Load \/ ProcessSlide \/ Save

\* A call of normalize_text_for_matching
Normalize ==
  /\ norm_out = <<"unset">>
  /\ norm_out' = normalize_text_for_matching(norm_in)
  /\ UNCHANGED <<fileVars, norm_in, matchVars, fuzzyVars>>

NormNext == Normalize

\* A call of is_flexible_match
FlexibleMatch ==
  /\ match_out = <<>>
  /\ match_out' = <<is_flexible_match(match_text, match_term)>>
  /\ UNCHANGED <<fileVars, normVars, match_text, match_term, fuzzyVars>>

MatchNext == FlexibleMatch

\* A call of apply_fuzzy_replacements.  An exception leaves no returned
\* dictionary; the running state it left is kept with raised set.
FuzzyCall ==
  /\ fuzzy_out = <<>>
  /\ fuzzy_out' = <<apply_fuzzy_replacements(fuzzy_text, fuzzy_pairs)>>
  /\ UNCHANGED <<fileVars, normVars, matchVars, fuzzy_text, fuzzy_pairs>>

FuzzyNext == FuzzyCall

(***************************************************************************)
(* PowerPointSanitizer                                                     *)
(***************************************************************************)
\* "if ... text_frame.text.strip(): text_content.append(...)": the stripped
\* text of a frame as a list of one entry, or of none when it is blank
TextEntry(text_frame) ==
  IF Strip(FrameText(text_frame)) # <<>>
  THEN <<Strip(FrameText(text_frame))>> ELSE <<>>

\* _extract_table_text: the entries of the cells from cell i on
RECURSIVE _extract_table_text(_, _)
_extract_table_text(cells, i) ==
  IF i > Len(cells) THEN <<>>
  ELSE TextEntry(cells[i]) \o _extract_table_text(cells, i + 1)

\* _process_shape: what a shape adds to text_content
_process_shape(shape) ==
  IF shape.kind = "text" THEN TextEntry(shape.frames[1])
  ELSE IF shape.kind = "table" THEN _extract_table_text(shape.frames, 1)
  ELSE <<>>

RECURSIVE ProcessShapes(_, _)
ProcessShapes(slide, i) ==
  IF i > Len(slide) THEN <<>>
  ELSE _process_shape(slide[i]) \o ProcessShapes(slide, i + 1)

\* _parse_slide: the SlideData of a slide
_parse_slide(slide, slide_number) ==
  [slide_number |-> slide_number, text_content |-> ProcessShapes(slide, 1)]

\* parse_presentation: one SlideData for each slide, numbered from 1
parse_presentation(document) ==
  [k \in 1..Len(document) |-> _parse_slide(document[k], k)]

\* The empty list "[]"
EmptyList == [kind |-> "list", detections |-> <<>>]

\* What analyzer.analyze_slide does: it raises, it returns None (a parsed
\* message of None), or it returns a DetectionResponse
Raises == [kind |-> "raises", detections |-> <<>>]
ReturnsNone == [kind |-> "none", detections |-> <<>>]
DetectionResponse(detections) ==
  [kind |-> "response", detections |-> detections]
NotCalled == [kind |-> "not called", detections |-> <<>>]

\* _analyze_slide: the empty list for a slide without text content and for
\* an analysis that raises, also in len(None) after the analyzer returned
\* None; the response otherwise
_analyze_slide(slide_data, outcome) ==
  IF slide_data.text_content = <<>> THEN EmptyList
  ELSE IF outcome.kind = "response" THEN outcome
  ELSE EmptyList

\* d[key] = value
SetItem(d, key, value) ==
  [k \in DOMAIN d \cup {key} |-> IF k = key THEN value ELSE d[k]]

\* Variant of ImageNotFound that only logs the warning: the slide gets no
\* entry (sensitivity of C26)
ImageNotFoundSkips(found, slide_number) == found

\* The else branch of "if slide_image_path.exists()":
\* all_detections[slide.slide_number] = []
ImageNotFound(found, slide_number) == SetItem(found, slide_number, EmptyList)

\* Variant of DetectionList without the test of the detections attribute:
\* only a plain list is taken (sensitivity of C30)
DetectionListOfListsOnly(detections) ==
  IF detections.kind = "list" THEN detections.detections ELSE <<>>

\* "detections.detections if hasattr(detections, 'detections') else
\* detections if isinstance(detections, list) else []"
DetectionList(detections) ==
  IF detections.kind = "response" THEN detections.detections
  ELSE IF detections.kind = "list" THEN detections.detections
  ELSE <<>>

\* getattr(detection, "category", "unknown")
Category(detection) ==
  IF "category" \in DOMAIN detection THEN detection.category ELSE "unknown"

\* The Detection that _convert_detections_for_replacement builds
ConvertDetection(detection) ==
  [attr |-> "original",
   value |-> IF detection.attr \in {"original", "text"}
             THEN detection.value ELSE <<>>,
   replacement |-> detection.replacement,
   category |-> Category(detection)]

_convert_detections_for_replacement(found) ==
  [k \in DOMAIN found |->
     [i \in 1..Len(DetectionList(found[k])) |->
        ConvertDetection(DetectionList(found[k])[i])]]

\* The sum of the values of a dictionary of numbers
RECURSIVE SumValues(_, _)
SumValues(d, keys) ==
  IF keys = {} THEN 0
  ELSE LET k == CHOOSE x \in keys : TRUE
       IN d[k] + SumValues(d, keys \ {k})

\* The categories of the detections of all slides
CategoriesOf(by_slide) ==
  UNION {{Category(by_slide[k][i]) : i \in 1..Len(by_slide[k])} :
         k \in DOMAIN by_slide}

\* categories_summary[category] after the loop: one for each detection of
\* the category
CategoryCount(by_slide, category) ==
  SumValues([k \in DOMAIN by_slide |->
               Cardinality({i \in 1..Len(by_slide[k]) :
                              Category(by_slide[k][i]) = category})],
            DOMAIN by_slide)

\* The report built from detections_by_slide
ReportOf(slides, by_slide, replacements) ==
  [total_slides |-> Len(slides),
   total_detections |->
     SumValues([k \in DOMAIN by_slide |-> Len(by_slide[k])],
               DOMAIN by_slide),
   total_replacements |-> replacements,
   detections_by_slide |-> by_slide,
   categories_summary |->
     [c \in CategoriesOf(by_slide) |-> CategoryCount(by_slide, c)]]

_generate_report(slides, found, replacements) ==
  ReportOf(slides, [k \in DOMAIN found |-> DetectionList(found[k])],
           replacements)

\* What the analyzer may do for a slide
AnalyzerDetections ==
  <<[attr |-> "original", value |-> <<"a">>, replacement |-> <<"b">>,
     category |-> "PII"],
    [attr |-> "original", value |-> <<"b">>, replacement |-> <<"c">>,
     category |-> "financial"],
    [attr |-> "original", value |-> <<"c">>, replacement |-> <<>>,
     category |-> "PII"]>>
AnalyzerOutcomes ==
  {Raises, ReturnsNone}
  \cup {DetectionResponse(SubSeq(AnalyzerDetections, 1, n)) :
          n \in 0..MaxAnalyzerDets}

\* parse_presentation, which raises when the file cannot be loaded
Parse ==
  /\ san_pc = "start"
  /\ \E ok \in BOOLEAN :
       IF ok
       THEN /\ slides_data' = parse_presentation(input_file)
            /\ san_pc' = "analyse"
       ELSE /\ san_pc' = "raised"
            /\ UNCHANGED slides_data
  /\ UNCHANGED <<input_file, all_detections, pc, presentation, slide_idx,
                 total_replacements, replacements_by_slide, output_file,
                 result, calls, color_setter_raises, images_dir,
                 san_detections, analyses, report, normVars, matchVars,
                 fuzzyVars>>

\* The history entry of one iteration of the analysis loop
Analysis(slide, image, outcome) ==
  [slide_number |-> slide.slide_number, image |-> image,
   text_content |-> slide.text_content, outcome |-> outcome]

\* One iteration of "for slide in slides_data"
AnalyseSlide ==
  /\ san_pc = "analyse"
  /\ Len(analyses) < Len(slides_data)
  /\ LET slide == slides_data[Len(analyses) + 1]
     IN IF slide.slide_number \in images_dir
        THEN \E outcome \in (IF slide.text_content = <<>> THEN {NotCalled}
                             ELSE AnalyzerOutcomes) :
               /\ san_detections' =
                    SetItem(san_detections, slide.slide_number,
                            _analyze_slide(slide, outcome))
               /\ analyses' = Append(analyses, Analysis(slide, TRUE, outcome))
        ELSE /\ san_detections' =
                  ImageNotFound(san_detections, slide.slide_number)
             /\ analyses' = Append(analyses, Analysis(slide, FALSE, NotCalled))
  /\ UNCHANGED <<input_file, all_detections, pc, presentation, slide_idx,
                 total_replacements, replacements_by_slide, output_file,
                 result, calls, color_setter_raises, san_pc, images_dir,
                 slides_data, report, normVars, matchVars, fuzzyVars>>

\* The detections are converted and apply_replacements_to_file is called
Replace ==
  /\ san_pc = "analyse"
  /\ Len(analyses) = Len(slides_data)
  /\ all_detections' = _convert_detections_for_replacement(san_detections)
  /\ pc' = "start"
  /\ san_pc' = "replace"
  /\ UNCHANGED <<input_file, presentation, slide_idx, total_replacements,
                 replacements_by_slide, output_file, result, calls,
                 color_setter_raises, images_dir, slides_data,
                 san_detections, analyses, report, normVars, matchVars,
                 fuzzyVars>>

\* apply_replacements_to_file has returned: the report is generated from
\* the count it returned and saved, which may raise
Report ==
  /\ san_pc = "replace"
  /\ pc = "returned"
  /\ report' = <<_generate_report(slides_data, san_detections,
                                  result.total_replacements)>>
  /\ \E ok \in BOOLEAN : san_pc' = IF ok THEN "returned" ELSE "raised"
  /\ UNCHANGED <<input_file, all_detections, pc, presentation, slide_idx,
                 total_replacements, replacements_by_slide, output_file,
                 result, calls, color_setter_raises, images_dir,
                 slides_data, san_detections, analyses, normVars,
                 matchVars, fuzzyVars>>

SanitizeNext == Parse \/ AnalyseSlide \/ Replace \/ Next \/ Report

(***************************************************************************)
(* Inputs                                                                  *)
(***************************************************************************)
SeqsUpTo(A, n) == UNION {[1..k -> A] : k \in 0..n}
SeqsFromTo(A, lo, n) == UNION {[1..k -> A] : k \in lo..n}

PlainStyle ==
  [size |-> None, name |-> None, bold |-> None, italic |-> None,
   color |-> None]
BoldStyle ==
  [size |-> "18", name |-> None, bold |-> "True", italic |-> "False",
   color |-> None]
FullStyle ==
  [size |-> "24", name |-> "Arial", bold |-> "False", italic |-> "True",
   color |-> "FF0000"]

Run(text, style) ==
  [text |-> text, size |-> style.size, name |-> style.name,
   bold |-> style.bold, italic |-> style.italic, color |-> style.color]

TextShape(text_frame) == [kind |-> "text", frames |-> <<text_frame>>]
TableShape(cells) == [kind |-> "table", frames |-> cells]
Picture == [kind |-> "picture", frames |-> <<>>]

Detection(original, replacement) ==
  [attr |-> "original", value |-> original, replacement |-> replacement]

\* No call of sanitize_presentation is under way
NoSanitizerCall ==
  /\ san_pc = "none"
  /\ images_dir = {}
  /\ slides_data = <<>>
  /\ san_detections = <<>>
  /\ analyses = <<>>
  /\ report = <<>>

InitLocals ==
  /\ pc = "start"
  /\ presentation = <<>>
  /\ slide_idx = 0
  /\ total_replacements = 0
  /\ replacements_by_slide = <<>>
  /\ output_file = <<>>
  /\ result = NoResult
  /\ calls = <<>>
  /\ color_setter_raises = FALSE
  /\ NoSanitizerCall

NoMatchCall ==
  /\ match_text = <<>>
  /\ match_term = <<>>
  /\ match_out = <<>>

NoFuzzyCall ==
  /\ fuzzy_text = <<>>
  /\ fuzzy_pairs = <<>>
  /\ fuzzy_out = <<>>

NoFileCall ==
  /\ input_file = <<>>
  /\ all_detections = <<>>
  /\ InitLocals

NoNormCall ==
  /\ norm_in = <<>>
  /\ norm_out = <<"unset">>
  /\ NoMatchCall
  /\ NoFuzzyCall

\* Documents of several slides with short texts
FileShapes ==
  {TextShape(<< <<Run(<<"a">>, BoldStyle)>> >>),
   TableShape(<< << <<Run(<<"b">>, PlainStyle)>> >>,
                 << <<Run(<<"a">>, FullStyle)>> >> >>)}
FileSlides == SeqsFromTo(FileShapes, 1, MaxShapes)
FileDocs == SeqsFromTo(FileSlides, 1, MaxSlides)
FileDetections ==
  {Detection(<<"a">>, <<"b">>), Detection(NoneObject, <<"b">>)}
FileDetLists == SeqsUpTo(FileDetections, MaxFileDets)
FileDetMaps ==
  UNION {[S -> FileDetLists] : S \in SUBSET (1..MaxSlides)}

Init ==
  /\ input_file \in FileDocs
  /\ all_detections \in FileDetMaps
  /\ InitLocals
  /\ NoNormCall

Spec == Init /\ [][Next]_vars

\* One slide holding one text shape.  Its frame is one paragraph of one run
\* of up to MaxRunLen characters, or two one-character runs in one or in
\* two paragraphs.
RunChars == {"a", "b"}
RunStyles == {PlainStyle, BoldStyle}
ShortTexts == SeqsUpTo(RunChars, 1)
RunFrames ==
  {<< <<Run(t, st)>> >> : t \in SeqsUpTo(RunChars, MaxRunLen),
                          st \in RunStyles}
  \cup {<< <<Run(t1, PlainStyle), Run(t2, FullStyle)>> >> :
          t1 \in ShortTexts, t2 \in ShortTexts}
  \cup {<< <<Run(t1, BoldStyle)>>, <<Run(t2, FullStyle)>> >> :
          t1 \in ShortTexts, t2 \in ShortTexts}
RunDetections ==
  {Detection(o, n) : o \in SeqsFromTo(RunChars, 1, MaxOrigLen),
                     n \in SeqsUpTo({"b", "c"}, 1)}

OneSlide(frames, detlists) ==
  /\ input_file \in {<< <<TextShape(f)>> >> : f \in frames}
  /\ all_detections \in {(1 :> d) : d \in detlists}
  /\ InitLocals
  /\ NoNormCall

InitRuns == OneSlide(RunFrames, SeqsUpTo(RunDetections, MaxRunDets))

SpecRuns == InitRuns /\ [][Next]_vars

\* One run and up to MaxOrderDets detections in any order
InitOrder ==
  OneSlide({<< <<Run(t, BoldStyle)>> >> : t \in SeqsUpTo(RunChars, MaxRunLen)},
           SeqsUpTo(RunDetections, MaxOrderDets))

SpecOrder == InitOrder /\ [][Next]_vars

\* Detection lists whose originals differ in length or tie, with objects
\* that carry the original under another attribute or not at all
SortDetections ==
  {Detection(o, n) : o \in SeqsUpTo({"a"}, MaxSortLen), n \in {<<"b">>, <<"c">>}}
  \cup {[attr |-> "text", value |-> <<"a">>, replacement |-> <<"d">>],
        [attr |-> "neither", value |-> <<"a">>, replacement |-> <<"d">>]}

InitSort ==
  OneSlide({<< <<Run(<<"a", "a">>, BoldStyle)>> >>},
           SeqsUpTo(SortDetections, MaxSortDets))

SpecSort == InitSort /\ [][Next]_vars

\* One run whose text has spaces and capitals, and detections whose
\* originals have single spaces
FuzzyChars == {"a", "A", " "}
FuzzyDetections ==
  {Detection(o, <<"c">>) : o \in SeqsFromTo({"a", " "}, 1, MaxFuzzyLen)}

InitFuzzy ==
  OneSlide({<< <<Run(t, BoldStyle)>> >> :
              t \in SeqsUpTo(FuzzyChars, MaxFuzzyLen + 1)},
           SeqsUpTo(FuzzyDetections, MaxFuzzyDets))

SpecFuzzy == InitFuzzy /\ [][Next]_vars

\* Slides of MaxFaultShapes shapes under one detection whose replacement is a lone
\* backslash: a run "a" is replaced literally, a run "A" reaches the
\* flexible substitution, which rejects the template with re.error, and the
\* table has a cell of either kind
FaultShapes ==
  {TextShape(<< <<Run(<<"a">>, BoldStyle)>> >>),
   TextShape(<< <<Run(<<"A">>, PlainStyle)>> >>),
   TableShape(<< << <<Run(<<"a">>, PlainStyle)>> >>,
                 << <<Run(<<"A">>, FullStyle)>> >> >>)}
FaultSlides == [1..MaxFaultShapes -> FaultShapes]
FaultDetections == <<Detection(<<"a">>, <<"BSL">>)>>

InitFaults ==
  /\ input_file \in SeqsFromTo(FaultSlides, 1, MaxFaultSlides)
  /\ all_detections = [k \in 1..MaxFaultSlides |-> FaultDetections]
  /\ InitLocals
  /\ NoNormCall

SpecFaults == InitFaults /\ [][Next]_vars

\* Strings of whitespace, typographic characters and their images
NormChars ==
  {"a", " ", "NL", "NBSP", "ENDASH", "EMDASH", "-", "LDQ", "RDQ", "DQ",
   "LSQ", "RSQ", "SQ"}

InitNorm ==
  /\ input_file = <<>>
  /\ all_detections = <<>>
  /\ InitLocals
  /\ norm_in \in SeqsUpTo(NormChars, MaxNormLen) \cup {NoneObject}
  /\ norm_out = <<"unset">>
  /\ NoMatchCall
  /\ NoFuzzyCall

SpecNorm == InitNorm /\ [][NormNext]_vars

\* Frames of two runs in one paragraph, the first possibly a capital, and
\* detections of which several can fire in one run, one several times,
\* and one without changing it
CountTexts == SeqsUpTo(RunChars, MaxCountLen)
CountFrames ==
  {<< <<Run(t1, BoldStyle), Run(t2, FullStyle)>> >> :
     t1 \in CountTexts \cup {<<"A">>}, t2 \in CountTexts}
CountDetections ==
  {Detection(<<"a">>, <<"b">>), Detection(<<"b">>, <<"b">>),
   Detection(<<"b">>, <<"a">>), Detection(<<"a", "b">>, <<"c">>),
   Detection(<<"a">>, <<>>)}

InitCount == OneSlide(CountFrames, SeqsUpTo(CountDetections, MaxCountDets))

SpecCount == InitCount /\ [][Next]_vars

\* Frames whose first paragraph has no run, one run or a word split over
\* two runs, alone or followed by a second paragraph, and detections of
\* the split word
RewriteFirstParagraphs ==
  {<<>>}
  \cup {<<Run(<<"a">>, st)>> : st \in {PlainStyle, BoldStyle, FullStyle}}
  \cup {<<Run(<<"a">>, st), Run(<<"b">>, PlainStyle)>> :
          st \in {PlainStyle, BoldStyle, FullStyle}}
RewriteFrames ==
  {<<p1>> : p1 \in RewriteFirstParagraphs}
  \cup {<<p1, p2>> : p1 \in RewriteFirstParagraphs,
                     p2 \in {<<Run(<<"a">>, FullStyle)>>,
                             <<Run(<<"a">>, BoldStyle),
                               Run(<<"b">>, PlainStyle)>>}}
RewriteDetections ==
  {Detection(<<"a", "b">>, n) : n \in {<<"c">>, <<>>, <<"c", "c">>}}

InitRewrite ==
  OneSlide(RewriteFrames, SeqsUpTo(RewriteDetections, MaxRewriteDets))

SpecRewrite == InitRewrite /\ [][Next]_vars

\* Texts with capitals, whitespace and a dot, and search terms with spaces
\* and a dot
MatchTextChars == {"a", "A", " ", "TAB", "."}
MatchTermChars == {"a", "A", " ", "."}

InitMatch ==
  /\ NoFileCall
  /\ norm_in = <<>>
  /\ norm_out = <<"unset">>
  /\ match_text \in SeqsUpTo(MatchTextChars, MaxMatchText)
  /\ match_term \in SeqsUpTo(MatchTermChars, MaxMatchTerm)
  /\ match_out = <<>>
  /\ NoFuzzyCall

SpecMatch == InitMatch /\ [][MatchNext]_vars

\* Texts with capitals and runs of spaces, and pairs whose originals are
\* empty, blank, or words with spaces before, between and behind them
CallTexts ==
  {<<>>, <<"a">>, <<"A">>, <<"a", "a">>, <<"a", " ", "a">>,
   <<"a", " ", " ", "a">>, <<"A", " ", "a">>, <<" ", "a">>, <<"c", "a">>,
   <<" ">>}
CallOriginals ==
  {<<>>, <<" ">>, <<"a">>, <<"A">>, <<"a", " ">>, <<"a", "a">>,
   <<"a", " ", "a">>}
CallPairs == {<<o, <<"c">>>> : o \in CallOriginals}

InitFuzzyCall ==
  /\ NoFileCall
  /\ norm_in = <<>>
  /\ norm_out = <<"unset">>
  /\ NoMatchCall
  /\ fuzzy_text \in CallTexts
  /\ fuzzy_pairs \in SeqsUpTo(CallPairs, MaxCallPairs)
  /\ fuzzy_out = <<>>

SpecFuzzyCall == InitFuzzyCall /\ [][FuzzyNext]_vars

\* One slide holding one table of up to MaxCells cells, each a frame of one
\* run: "a" is replaced by Phase A, "A" reaches the flexible substitution
\* and "b" holds no original.  Under the replacement that is a lone
\* backslash the flexible substitution raises re.error.
CellFrames ==
  {<< <<Run(<<"a">>, BoldStyle)>> >>, << <<Run(<<"A">>, PlainStyle)>> >>,
   << <<Run(<<"b">>, FullStyle)>> >>}
CellDetections ==
  {<<Detection(<<"a">>, <<"BSL">>)>>, <<Detection(<<"a">>, <<"c">>)>>}

InitCells ==
  /\ input_file \in {<< <<TableShape(cells)>> >> :
                        cells \in SeqsFromTo(CellFrames, 1, MaxCells)}
  /\ all_detections \in {(1 :> d) : d \in CellDetections}
  /\ InitLocals
  /\ NoNormCall

SpecCells == InitCells /\ [][Next]_vars

\* The start of a call in which the colour setter may raise
InitLocalsColour ==
  /\ pc = "start"
  /\ presentation = <<>>
  /\ slide_idx = 0
  /\ total_replacements = 0
  /\ replacements_by_slide = <<>>
  /\ output_file = <<>>
  /\ result = NoResult
  /\ calls = <<>>
  /\ color_setter_raises \in BOOLEAN
  /\ NoSanitizerCall

\* One slide of MaxStyleShapes text shapes, each a frame of two styled runs
\* in one paragraph, under pairs that Phase A applies in one or both runs
\* or that only the Phase B rewrite can apply, in a call in which the
\* colour setter raises or not
StyleFrames ==
  {<< <<Run(t1, st1), Run(t2, st2)>> >> :
     t1 \in {<<"a">>, <<"b">>}, st1 \in {BoldStyle, FullStyle},
     t2 \in {<<>>, <<"a">>, <<"b">>}, st2 \in {PlainStyle, FullStyle}}
StyleDetections ==
  {<<Detection(<<"a">>, <<"c">>)>>, <<Detection(<<"b", "b">>, <<"c">>)>>,
   <<Detection(<<"a">>, <<"c">>), Detection(<<"b", "b">>, <<"c">>)>>}

InitStyle ==
  /\ input_file \in {<<[i \in 1..MaxStyleShapes |-> TextShape(f[i])]>> :
                        f \in [1..MaxStyleShapes -> StyleFrames]}
  /\ all_detections \in {(1 :> d) : d \in StyleDetections}
  /\ InitLocalsColour
  /\ NoNormCall

SpecStyle == InitStyle /\ [][Next]_vars

\* Pairs with an empty original among others, handed to a frame of two
\* runs through a slide, or handed in any order to a call of
\* apply_fuzzy_replacements
EmptyFrames ==
  {<< <<Run(t1, BoldStyle), Run(t2, FullStyle)>> >> :
     t1 \in {<<"a">>, <<"A">>, <<"a", "b">>}, t2 \in {<<>>, <<"b">>}}
EmptyDetections ==
  {Detection(<<>>, <<"c">>), Detection(<<>>, <<>>),
   Detection(<<"a">>, <<"b">>), Detection(<<"a", "b">>, <<"c">>)}
EmptyCallTexts == {<<>>, <<"a">>, <<"A">>, <<"a", "a">>}
EmptyCallPairs ==
  {<<<<>>, <<"c">>>>, <<<<>>, <<>>>>, <<<<"a">>, <<"c">>>>}

InitEmpty ==
  /\ InitLocals
  /\ norm_in = <<>>
  /\ norm_out = <<"unset">>
  /\ NoMatchCall
  /\ \/ /\ input_file \in {<< <<TextShape(f)>> >> : f \in EmptyFrames}
        /\ all_detections \in
             {(1 :> d) : d \in SeqsFromTo(EmptyDetections, 1, MaxEmptyDets)}
        /\ NoFuzzyCall
     \/ /\ input_file = <<>>
        /\ all_detections = <<>>
        /\ fuzzy_text \in EmptyCallTexts
        /\ fuzzy_pairs \in SeqsFromTo(EmptyCallPairs, 1, MaxEmptyDets)
        /\ fuzzy_out = <<>>

EmptyNext == Next \/ FuzzyNext

SpecEmpty == InitEmpty /\ [][EmptyNext]_vars

\* A call of sanitize_presentation on a document of MaxSanSlides slides,
\* each one shape that holds text, blank text or a picture, with an image
\* rendered for some of the slides
SanShapes ==
  {TextShape(<< <<Run(<<"a">>, BoldStyle)>> >>),
   TextShape(<< <<Run(<<" ">>, PlainStyle)>> >>),
   Picture}

InitSanitize ==
  /\ input_file \in [1..MaxSanSlides -> {<<sh>> : sh \in SanShapes}]
  /\ images_dir \in SUBSET (1..MaxSanSlides)
  /\ san_pc = "start"
  /\ slides_data = <<>>
  /\ san_detections = <<>>
  /\ analyses = <<>>
  /\ report = <<>>
  /\ all_detections = <<>>
  /\ pc = "not called"
  /\ presentation = <<>>
  /\ slide_idx = 0
  /\ total_replacements = 0
  /\ replacements_by_slide = <<>>
  /\ output_file = <<>>
  /\ result = NoResult
  /\ calls = <<>>
  /\ color_setter_raises = FALSE
  /\ NoNormCall

SpecSanitize == InitSanitize /\ [][SanitizeNext]_vars

\* Frames of two runs in one paragraph in which "bb" can lie across the
\* two runs, and pairs of which one matches inside a run
RedactFrames ==
  {<< <<Run(t1, BoldStyle), Run(t2, PlainStyle)>> >> :
     t1 \in {<<"a">>, <<"b">>, <<"a", "b">>},
     t2 \in {<<>>, <<"a">>, <<"b">>}}
RedactDetections ==
  {Detection(<<"a">>, <<"c">>), Detection(<<"b", "b">>, <<"c">>)}

InitRedact ==
  OneSlide(RedactFrames, SeqsUpTo(RedactDetections, MaxRedactDets))

SpecRedact == InitRedact /\ [][Next]_vars

\* Calls of apply_fuzzy_replacements whose text holds the original in
\* capitals, so that the flexible branch is taken, with replacements that
\* hold backslashes
TemplateTexts ==
  {<<>>, <<"a">>, <<"A">>, <<"A", " ", "A">>, <<"c", "A">>}
TemplateReplacements ==
  {<<"c">>, <<"BSL">>, <<"BSL", "BSL">>, <<"BSL", "a">>, <<"c", "BSL">>,
   <<"BSL", ".">>}
TemplatePairs ==
  {<<o, n>> : o \in {<<"a">>, <<"a", " ", "a">>}, n \in TemplateReplacements}

InitTemplate ==
  /\ NoFileCall
  /\ norm_in = <<>>
  /\ norm_out = <<"unset">>
  /\ NoMatchCall
  /\ fuzzy_text \in TemplateTexts
  /\ fuzzy_pairs \in SeqsFromTo(TemplatePairs, 1, MaxTemplatePairs)
  /\ fuzzy_out = <<>>

SpecTemplate == InitTemplate /\ [][FuzzyNext]_vars

(***************************************************************************)
(* Properties                                                              *)
(***************************************************************************)
\* The slides whose loop iteration has been run to its end
Processed == {k \in 1..Len(calls) : ~calls[k].raised}

\* The places <<slide, shape, frame>> of the frames a slide call went through
FramePlaces ==
  UNION {UNION {{<<k, i, j>> : j \in 1..Len(calls[k].logs[i].frames)} :
                i \in 1..Len(calls[k].logs)} :
         k \in Processed}

LogAt(pl) == calls[pl[1]].logs[pl[2]].frames[pl[3]]
FrameBefore(pl) == input_file[pl[1]][pl[2]].frames[pl[3]]
FrameAfter(pl) == presentation[pl[1]][pl[2]].frames[pl[3]]

\* The places <<paragraph, run>> of the runs of a frame
RunPlaces(frame) ==
  UNION {{<<p, r>> : r \in 1..Len(frame[p])} : p \in 1..Len(frame)}

\* The text in which every occurrence of long is replaced by its
\* replacement and, in what remains between them, every occurrence of
\* short by its replacement; seg is the text since the last occurrence
RECURSIVE LongThenRest(_, _, _, _, _, _, _)
LongThenRest(s, long, longRepl, short, shortRepl, i, seg) ==
  IF i > Len(s) THEN StrReplace(seg, short, shortRepl)
  ELSE IF MatchAt(s, i, long)
  THEN StrReplace(seg, short, shortRepl) \o longRepl
         \o LongThenRest(s, long, longRepl, short, shortRepl,
                         i + Len(long), <<>>)
  ELSE LongThenRest(s, long, longRepl, short, shortRepl, i + 1,
                    Append(seg, s[i]))

\* short occurs in s outside the occurrences of long
RECURSIVE OccursOutside(_, _, _, _, _)
OccursOutside(s, long, short, i, seg) ==
  IF i > Len(s) THEN Contains(seg, short)
  ELSE IF MatchAt(s, i, long)
  THEN Contains(seg, short) \/ OccursOutside(s, long, short, i + Len(long), <<>>)
  ELSE OccursOutside(s, long, short, i + 1, Append(seg, s[i]))

\* Two detections, in either order, one original a proper substring of the
\* other, and a run text with the longer one and a separate shorter one
LongShortCase(k, i) ==
  /\ Len(calls[k].detections) = 2
  /\ LET long == calls[k].detections[i].value
         short == calls[k].detections[3 - i].value
         text == FrameText(input_file[k][1].frames[1])
     IN /\ Len(short) < Len(long)
        /\ short # <<>>
        /\ Contains(long, short)
        /\ Contains(text, long)
        /\ OccursOutside(text, long, short, 1, <<>>)

\* C1: longest-first safety.  When a slide call is given two detections in
\* any order, one original a proper substring of the other, and the run's
\* text holds the longer original and a separate occurrence of the shorter
\* one, the final text has every occurrence of the longer original replaced
\* by the longer pair's replacement and only the remaining occurrences of
\* the shorter original replaced by the shorter pair's replacement.
C1_LongestFirstSafety ==
  \A k \in Processed : \A i \in 1..2 :
    LongShortCase(k, i) =>
      FrameText(presentation[k][1].frames[1]) =
        LongThenRest(FrameText(input_file[k][1].frames[1]),
                     calls[k].detections[i].value,
                     calls[k].detections[i].replacement,
                     calls[k].detections[3 - i].value,
                     calls[k].detections[3 - i].replacement, 1, <<>>)

\* C2: in no frame does a later pair rewrite characters that an earlier
\* pair's replacement wrote, in Phase A, in the Phase B literal pass or in
\* the fuzzy fallback.
C2_NoRewriteOfReplacedText ==
  \A pl \in FramePlaces : ~LogAt(pl).rewrote

HasPair(d) == d.attr \in {"original", "text"}

\* The pairs of the detections that carry one, in the detections' order
PairsOf(detections) ==
  LET ds == SelectSeq(detections, HasPair)
  IN [i \in 1..Len(ds) |-> <<ds[i].value, ds[i].replacement>>]

\* sorted is pairs rearranged without changing the order of the pairs
\* whose originals have the same length
StablePermutation(pairs, sorted) ==
  /\ Len(sorted) = Len(pairs)
  /\ \E f \in Permutations(1..Len(pairs)) :
       /\ \A i \in 1..Len(pairs) : sorted[f[i]] = pairs[i]
       /\ \A i, j \in 1..Len(pairs) :
            (i < j /\ Len(pairs[i][1]) = Len(pairs[j][1])) => f[i] < f[j]

\* C3: the pair sequence handed to the shapes is a permutation of the
\* pairs built from the detections, in non-increasing length of original,
\* and pairs with originals of equal length keep their relative order.
C3_SortedStablePermutation ==
  \A k \in Processed :
    calls[k].called =>
      /\ StablePermutation(PairsOf(calls[k].detections), calls[k].handed)
      /\ \A i \in 1..(Len(calls[k].handed) - 1) :
           Len(calls[k].handed[i][1]) >= Len(calls[k].handed[i + 1][1])

\* Witness of C3: three pairs were handed over, reordered, two of them with
\* different replacements tying on the length of the original.
C3_Witness ==
  \E k \in Processed :
    /\ calls[k].called
    /\ Len(calls[k].handed) = 3
    /\ calls[k].handed # PairsOf(calls[k].detections)
    /\ \E i \in 1..2 :
         /\ Len(calls[k].handed[i][1]) = Len(calls[k].handed[i + 1][1])
         /\ calls[k].handed[i] # calls[k].handed[i + 1]

\* Two words separated by n spaces
RECURSIVE Spaces(_)
Spaces(n) == IF n = 0 THEN <<>> ELSE <<" ">> \o Spaces(n - 1)

\* C4: whitespace-flexible fallback.  A frame whose text is two words
\* separated by several spaces, with a pair whose original is the two
\* words separated by one space, ends up containing the replacement and
\* neither word.
C4_WhitespaceFlexibleFallback ==
  \A k \in Processed :
    (/\ calls[k].detections = <<Detection(<<"a", " ", "a">>, <<"c">>)>>
     /\ \E n \in 2..MaxFuzzyLen :
          FrameText(input_file[k][1].frames[1])
            = <<"a">> \o Spaces(n) \o <<"a">>)
    => /\ Contains(FrameText(presentation[k][1].frames[1]), <<"c">>)
       /\ ~Contains(FrameText(presentation[k][1].frames[1]), <<"a">>)

\* C5: fallback monotonicity.  In a frame where Phase A changed at least
\* one run, Phase B is not attempted, the fuzzy fallback is not invoked and
\* the frame is not cleared.
C5_FallbackOnlyAfterEmptyPhaseA ==
  \A pl \in FramePlaces :
    LogAt(pl).phaseA > 0 =>
      /\ ~LogAt(pl).phaseB
      /\ ~LogAt(pl).fuzzy
      /\ ~LogAt(pl).cleared
      /\ Len(FrameAfter(pl)) = Len(FrameBefore(pl))

\* Witness of C5: Phase A changed a run of a frame of two runs.
C5_Witness ==
  \E pl \in FramePlaces :
    /\ LogAt(pl).phaseA > 0
    /\ Cardinality(RunPlaces(FrameBefore(pl))) = 2

\* C6: run-level style preservation.  Every run whose text Phase A changes
\* has the size, font name, bold, italic and colour it had before.
C6_RunStylePreserved ==
  \A pl \in FramePlaces :
    LogAt(pl).phaseA > 0 =>
      /\ RunPlaces(FrameAfter(pl)) = RunPlaces(FrameBefore(pl))
      /\ \A pr \in RunPlaces(FrameBefore(pl)) :
           StyleOf(FrameAfter(pl)[pr[1]][pr[2]])
             = StyleOf(FrameBefore(pl)[pr[1]][pr[2]])

\* Witness of C6: a bold run of size 18 whose text Phase A changed.
C6_Witness ==
  \E pl \in FramePlaces :
    /\ LogAt(pl).phaseA > 0
    /\ \E pr \in RunPlaces(FrameBefore(pl)) :
         /\ FrameBefore(pl)[pr[1]][pr[2]].bold = "True"
         /\ FrameBefore(pl)[pr[1]][pr[2]].size = "18"
         /\ FrameAfter(pl)[pr[1]][pr[2]].text
              # FrameBefore(pl)[pr[1]][pr[2]].text

\* C7: zero-detection no-op.  A slide call with an empty detection list
\* returns 0 and leaves the slide as it was.
C7_EmptyDetectionsNoOp ==
  \A k \in Processed :
    (calls[k].in_map /\ calls[k].detections = <<>>) =>
      /\ calls[k].count = 0
      /\ presentation[k] = input_file[k]
      /\ (pc = "returned" /\ result.success =>
            result.replacements_by_slide[k] = 0)

\* Witness of C7: a slide with text was called with an empty list.
C7_Witness ==
  \E k \in Processed :
    /\ calls[k].in_map
    /\ calls[k].detections = <<>>
    /\ FrameText(input_file[k][1].frames[1]) # <<>>

\* What slide k of the input yields under the detections given for it
Yield(k) ==
  IF k \in DOMAIN all_detections
  THEN _apply_replacements_to_slide(input_file[k], all_detections[k]).count
  ELSE 0

RECURSIVE SumYields(_)
SumYields(n) == IF n = 0 THEN 0 ELSE Yield(n) + SumYields(n - 1)

\* C8: aggregate correctness.  A successful result has one count per slide
\* of the document, each what the slide yielded (0 for an empty detection
\* list and for a slide absent from the map), and their sum as the total.
C8_AggregateCorrectness ==
  (pc = "returned" /\ result.success) =>
    /\ DOMAIN result.replacements_by_slide = 1..Len(input_file)
    /\ \A k \in 1..Len(input_file) :
         /\ result.replacements_by_slide[k] = Yield(k)
         /\ (k \notin DOMAIN all_detections \/ all_detections[k] = <<>>)
              => result.replacements_by_slide[k] = 0
    /\ result.total_replacements = SumYields(Len(input_file))

\* Witness of C8: success on two slides that both yielded replacements.
C8_Witness ==
  /\ pc = "returned"
  /\ result.success
  /\ Len(input_file) = 2
  /\ \A k \in 1..2 : result.replacements_by_slide[k] > 0

\* C9: normalization is idempotent.  Normalizing a normalized string gives
\* the same string.
C9_NormalizeIdempotent ==
  norm_out # <<"unset">> =>
    normalize_text_for_matching(norm_out) = norm_out

\* Witness of C9: a string mixing a space, a non-breaking space and a
\* typographic dash was normalized.
C9_Witness ==
  /\ norm_out # <<"unset">>
  /\ \E i, j, l \in 1..Len(norm_in) :
       norm_in[i] = " " /\ norm_in[j] = "NBSP" /\ norm_in[l] = "ENDASH"

\* C10: apply_replacements_to_file never raises.  Control ends in a
\* returned result; a failed load, slide or save gives success false, total
\* 0, an empty map and an error message, whatever had been processed, and
\* otherwise the result has success true.
C10_NeverRaises ==
  /\ pc \in {"start", "loop", "returned"}
  /\ (\E k \in 1..Len(calls) : calls[k].raised) =>
       (pc = "returned" /\ ~result.success)
  /\ pc = "returned" =>
       IF result.success
       THEN /\ result.error = ""
            /\ Len(output_file) = 1
            /\ Processed = 1..Len(input_file)
       ELSE /\ result.total_replacements = 0
            /\ result.replacements_by_slide = <<>>
            /\ result.error \in {"load failed", "slide failed", "save failed"}
            /\ output_file = <<>>

\* Witness of C10: the save failed after slides had been changed.
C10_Witness ==
  /\ pc = "returned"
  /\ ~result.success
  /\ result.error = "save failed"
  /\ total_replacements > 0

\* The sum of the counts of the shapes of a slide call
RECURSIVE SumShapeCounts(_, _)
SumShapeCounts(logs, n) ==
  IF n = 0 THEN 0 ELSE logs[n].count + SumShapeCounts(logs, n - 1)

\* C11: shape-level error isolation.  A failure inside a shape is caught
\* and that shape counts 0, while every shape of the slide is still gone
\* through and counts what it yields, the slide returns the sum, and every
\* later slide is processed: only a failed load or save fails the file.
C11_ShapeErrorIsolated ==
  /\ \A k \in 1..Len(calls) :
       calls[k].called =>
         /\ ~calls[k].raised
         /\ Len(calls[k].logs) = Len(input_file[k])
         /\ \A i \in 1..Len(calls[k].logs) :
              /\ calls[k].logs[i].caught => calls[k].logs[i].count = 0
              /\ calls[k].logs[i].count =
                   _apply_replacements_to_shape(input_file[k][i],
                                                calls[k].handed).count
         /\ calls[k].count = SumShapeCounts(calls[k].logs, Len(calls[k].logs))
  /\ ((\E k \in 1..Len(calls) : \E i \in 1..Len(calls[k].logs) :
          calls[k].logs[i].caught) /\ pc = "returned")
       => /\ Len(calls) = Len(input_file)
          /\ result.error \in {"", "save failed"}
          /\ result.success =>
               \A k \in 1..Len(calls) :
                 result.replacements_by_slide[k] = calls[k].count

\* Witness of C11: the first shape of the first slide failed, a later shape
\* of that slide and a shape of the next slide were replaced and counted,
\* and the file was saved.
C11_Witness ==
  /\ pc = "returned"
  /\ result.success
  /\ Len(calls) = 2
  /\ Len(calls[1].logs) = 2
  /\ calls[1].logs[1].caught
  /\ calls[1].logs[2].count > 0
  /\ result.replacements_by_slide[1] > 0
  /\ result.replacements_by_slide[2] > 0

\* The save has been invoked: it wrote the document or it raised
SaveInvoked == output_file # <<>> \/ result.error = "save failed"

\* The k-th loop iteration is that of slide k; a save is invoked only when
\* every slide has had its iteration, and what it wrote is the document as
\* the last iteration left it
SavedAfterAllSlides ==
  /\ \A k \in 1..Len(calls) : calls[k].slide_number = k
  /\ Len(calls) <= Len(input_file)
  /\ Len(output_file) <= 1
  /\ SaveInvoked =>
       /\ pc = "returned"
       /\ Len(calls) = Len(input_file)
       /\ Processed = 1..Len(input_file)
  /\ output_file # <<>> => output_file[1] = presentation

\* A step appends one loop iteration, of the next slide, or none; once the
\* save is invoked nothing is processed, mutated or saved
NothingAfterSave ==
  /\ \/ calls' = calls
     \/ /\ Len(calls') = Len(calls) + 1
        /\ SubSeq(calls', 1, Len(calls)) = calls
        /\ calls'[Len(calls')].slide_number = Len(calls) + 1
  /\ (pc = "loop" /\ presentation' # presentation) => calls' # calls
  /\ SaveInvoked => UNCHANGED <<presentation, output_file, calls, result>>

\* C12: single save after all mutations.  The slides are processed
\* strictly in ascending slide order, the save is invoked at most once and
\* only after the last slide has been processed, and no slide is mutated
\* after the save.
C12_SingleSaveAfterAllSlides ==
  []SavedAfterAllSlides /\ [][NothingAfterSave]_vars

\* Witness of C12: a document of two slides, both changed, was saved.
C12_Witness ==
  /\ pc = "returned"
  /\ output_file = <<presentation>>
  /\ Len(input_file) = 2
  /\ \A k \in 1..2 : presentation[k] # input_file[k]

\* A call of normalize_text_for_matching on a string has returned
Normalized == norm_out # <<"unset">> /\ norm_in # NoneObject

IsSpace(c) == c = " "
IsInk(c) == c \notin Whitespace

\* The positions where a maximal run of whitespace starts
RunStarts(s) ==
  {i \in 1..Len(s) : s[i] \in Whitespace /\ (i = 1 \/ s[i - 1] \notin Whitespace)}

\* Those of the runs that have a non-whitespace character on either side
InnerRunStarts(s) ==
  {i \in RunStarts(s) : i > 1 /\ \E j \in i..Len(s) : s[j] \notin Whitespace}

\* C13 (as stated): every run of whitespace, a leading run and a trailing
\* run included, is collapsed to a single space.
C13_EveryRunToSingleSpace ==
  Normalized =>
    /\ Len(SelectSeq(norm_out, IsSpace)) = Cardinality(RunStarts(norm_in))
    /\ \A i \in 1..Len(norm_out) : norm_out[i] \in Whitespace => norm_out[i] = " "
    /\ (norm_in # <<>> /\ norm_in[1] \in Whitespace) =>
         (norm_out # <<>> /\ norm_out[1] = " ")

\* C13 (amended): every run of whitespace between two non-whitespace
\* characters is collapsed to a single space, and a leading run and a
\* trailing run are removed.
C13_InnerRunsCollapsedEndsRemoved ==
  Normalized =>
    /\ Len(SelectSeq(norm_out, IsSpace)) = Cardinality(InnerRunStarts(norm_in))
    /\ \A i \in 1..Len(norm_out) : norm_out[i] \in Whitespace => norm_out[i] = " "
    /\ \A i \in 1..(Len(norm_out) - 1) :
         ~(norm_out[i] = " " /\ norm_out[i + 1] = " ")
    /\ norm_out # <<>> =>
         (norm_out[1] # " " /\ norm_out[Len(norm_out)] # " ")
    /\ Len(SelectSeq(norm_out, IsInk)) = Len(SelectSeq(norm_in, IsInk))

\* Witness of C13: a string with a leading and a trailing run of whitespace
\* around a character was normalized.
C13_Witness ==
  /\ Normalized
  /\ Len(norm_in) = 3
  /\ norm_in[1] \in Whitespace
  /\ norm_in[2] \notin Whitespace
  /\ norm_in[3] \in Whitespace

\* The typographic characters that are mapped, and their images
MappedSources == {"NBSP", "ENDASH", "EMDASH", "LDQ", "RDQ", "LSQ", "RSQ"}

ImageOf(c) ==
  CASE c = "NBSP" -> " "
    [] c \in {"ENDASH", "EMDASH"} -> "-"
    [] c \in {"LDQ", "RDQ"} -> "DQ"
    [] c \in {"LSQ", "RSQ"} -> "SQ"
    [] OTHER -> c

ImagesOf(s) == [i \in 1..Len(s) |-> ImageOf(s[i])]

\* C14: the output holds none of the mapped characters; its non-whitespace
\* characters are those of the input, in order, dashes and quotation marks
\* replaced by their images and every other one unchanged; a non-breaking
\* space counts as a regular space; the empty string and None give the
\* empty string.
C14_SpecialCharsMapped ==
  norm_out # <<"unset">> =>
    /\ norm_in \in {<<>>, NoneObject} => norm_out = <<>>
    /\ \A i \in 1..Len(norm_out) : norm_out[i] \notin MappedSources
    /\ norm_in # NoneObject =>
         /\ SelectSeq(norm_out, IsInk) = ImagesOf(SelectSeq(norm_in, IsInk))
         /\ norm_out =
              normalize_text_for_matching(
                [i \in 1..Len(norm_in) |->
                   IF norm_in[i] = "NBSP" THEN " " ELSE norm_in[i]])

\* Witness of C14: an em dash and a left double quotation mark separated by
\* a non-breaking space were normalized to a hyphen, a space and a quote.
C14_Witness ==
  /\ norm_in = <<"EMDASH", "NBSP", "LDQ">>
  /\ norm_out = <<"-", " ", "DQ">>

\* u is formed from term by replacing each space of term with a run of zero
\* or more whitespace characters, the other characters compared without
\* regard to case
RECURSIVE FormedFrom(_, _)
FormedFrom(u, term) ==
  IF term = <<>> THEN u = <<>>
  ELSE IF Head(term) = " "
  THEN \E k \in 0..Len(u) :
         /\ \A i \in 1..k : u[i] \in Whitespace
         /\ FormedFrom(SubSeq(u, k + 1, Len(u)), Tail(term))
  ELSE /\ u # <<>>
       /\ Lower(Head(u)) = Lower(Head(term))
       /\ FormedFrom(Tail(u), Tail(term))

\* C15: is_flexible_match(text, term) is true exactly when some substring
\* of text is formed from term by replacing each space with a run of zero
\* or more whitespace characters, compared case-insensitively, every other
\* character of term, a regex metacharacter too, standing for itself.
C15_FlexibleMatchExact ==
  match_out # <<>> =>
    (match_out[1] <=>
       \E i \in 1..(Len(match_text) + 1) : \E j \in (i - 1)..Len(match_text) :
         FormedFrom(SubSeq(match_text, i, j), match_term))

\* Witness of C15: a term with a space and a dot matched a text with a
\* capital, a tab and a dot.
C15_Witness ==
  /\ match_out = <<TRUE>>
  /\ match_term = <<"a", " ", ".">>
  /\ match_text = <<"A", "TAB", ".">>

\* apply_fuzzy_replacements has returned
FuzzyReturned == fuzzy_out # <<>> /\ ~fuzzy_out[1].raised

\* The pair matches the text by normalized substring or by flexible pattern
NormalizedHit(text, pair) ==
  Contains(normalize_text_for_matching(text),
           normalize_text_for_matching(pair[1]))

FlexibleHit(text, pair) ==
  is_flexible_match(normalize_text_for_matching(text),
                    normalize_text_for_matching(pair[1]))

\* sub is a subsequence of the first n elements of seq
RECURSIVE IsSubsequence(_, _, _)
IsSubsequence(sub, seq, n) ==
  IF sub = <<>> THEN TRUE
  ELSE IF n = 0 THEN FALSE
  ELSE \/ IsSubsequence(sub, seq, n - 1)
       \/ /\ sub[Len(sub)] = seq[n]
          /\ IsSubsequence(SubSeq(sub, 1, Len(sub) - 1), seq, n - 1)

\* The pairs of the iterations that are recorded as applied
AppliedStep(st) == st.branch \in {"normalized", "flexible"}
AppliedIn(steps) ==
  LET a == SelectSeq(steps, AppliedStep)
  IN [i \in 1..Len(a) |-> a[i].pair]

\* C16: a pair that is skipped for its empty original, or that matches
\* neither by normalized substring nor by flexible pattern, leaves the
\* running text as it is and is not recorded as applied; when no pair
\* matches, the input text is returned with an empty applied list; the
\* applied list is a subsequence of the input pairs in the order attempted.
C16_UnmatchedPairsLeaveText ==
  FuzzyReturned =>
    LET out == fuzzy_out[1]
    IN /\ Len(out.steps) = Len(fuzzy_pairs)
       /\ \A i \in 1..Len(out.steps) :
            /\ out.steps[i].pair = fuzzy_pairs[i]
            /\ out.steps[i].before =
                 (IF i = 1 THEN fuzzy_text ELSE out.steps[i - 1].after)
            /\ (\/ fuzzy_pairs[i][1] = <<>>
                \/ /\ ~NormalizedHit(out.steps[i].before, fuzzy_pairs[i])
                   /\ ~FlexibleHit(out.steps[i].before, fuzzy_pairs[i]))
                 => /\ out.steps[i].after = out.steps[i].before
                    /\ ~AppliedStep(out.steps[i])
       /\ out.replacements = AppliedIn(out.steps)
       /\ IsSubsequence(out.replacements, fuzzy_pairs, Len(fuzzy_pairs))
       /\ out.new_text =
            (IF out.steps = <<>> THEN fuzzy_text
             ELSE out.steps[Len(out.steps)].after)
       /\ (\A i \in 1..Len(out.steps) : ~AppliedStep(out.steps[i]))
            => (out.new_text = fuzzy_text /\ out.replacements = <<>>)

\* Witness of C16: of two pairs the first, with an empty original, was
\* skipped and the second matched and changed the text.
C16_Witness ==
  /\ FuzzyReturned
  /\ Len(fuzzy_pairs) = 2
  /\ fuzzy_pairs[1][1] = <<>>
  /\ fuzzy_out[1].replacements = <<fuzzy_pairs[2]>>
  /\ fuzzy_out[1].new_text # fuzzy_text

\* C17: in every iteration with a non-empty original the normalized
\* substring test is made first: when it holds, all literal occurrences of
\* the original in the unnormalized running text are replaced and the pair
\* is recorded as applied; the flexible substitution is made, and the pair
\* recorded, only when that test fails and the flexible pattern matches
\* the normalized running text.
C17_NormalizedTestFirst ==
  FuzzyReturned =>
    LET out == fuzzy_out[1]
    IN /\ out.replacements = AppliedIn(out.steps)
       /\ \A i \in 1..Len(out.steps) :
            LET st == out.steps[i]
            IN st.pair[1] # <<>> =>
                 /\ NormalizedHit(st.before, st.pair) =>
                      /\ st.branch = "normalized"
                      /\ st.after = StrReplace(st.before, st.pair[1], st.pair[2])
                 /\ st.branch = "flexible" <=>
                      (~NormalizedHit(st.before, st.pair)
                         /\ FlexibleHit(st.before, st.pair))
                 /\ st.branch = "flexible" =>
                      st.after =
                        ReSubM(create_flexible_pattern(
                                 normalize_text_for_matching(st.pair[1])),
                               st.pair[2], st.before,
                               AllFalse(Len(st.before))).text

\* Witness of C17: one pair passed the normalized test although the text
\* holds no literal occurrence of its original, and another pair, failing
\* that test, was substituted through the flexible pattern.
C17_Witness ==
  /\ FuzzyReturned
  /\ \E i, j \in 1..Len(fuzzy_out[1].steps) :
       /\ fuzzy_out[1].steps[i].branch = "normalized"
       /\ fuzzy_out[1].steps[i].after = fuzzy_out[1].steps[i].before
       /\ fuzzy_out[1].steps[j].branch = "flexible"
       /\ fuzzy_out[1].steps[j].after # fuzzy_out[1].steps[j].before

\* The value _apply_replacements_to_text_frame returned for the frame at
\* pl, the one frame of a text shape
ReturnedAt(pl) == calls[pl[1]].logs[pl[2]].count

\* The runs of the frame at pl whose text differs from what it was
ChangedRuns(pl) ==
  {pr \in RunPlaces(FrameBefore(pl)) :
     FrameAfter(pl)[pr[1]][pr[2]].text # FrameBefore(pl)[pr[1]][pr[2]].text}

\* The pairs handed to the frame at pl that occur in the text t
FiringIn(pl, t) ==
  {i \in 1..Len(calls[pl[1]].handed) :
     /\ calls[pl[1]].handed[i][1] # <<>>
     /\ Contains(t, calls[pl[1]].handed[i][1])}

\* C18: when Phase A changes at least one run, the frame call returns the
\* number of runs whose text changed: a run in which several pairs fire
\* counts once and a run whose text in the end equals its text before
\* counts zero.
C18_CountIsChangedRuns ==
  \A pl \in FramePlaces :
    (LogAt(pl).phaseA > 0 /\ input_file[pl[1]][pl[2]].kind = "text") =>
      /\ ReturnedAt(pl) = Cardinality(ChangedRuns(pl))
      /\ ReturnedAt(pl) <= Cardinality(RunPlaces(FrameBefore(pl)))

\* Witness of C18: in a frame of two runs under two pairs, both pairs fired
\* in a run that changed and a pair fired in the other run without
\* changing it, and 1 was returned.
C18_Witness ==
  \E pl \in FramePlaces :
    /\ LogAt(pl).phaseA > 0
    /\ ReturnedAt(pl) = 1
    /\ Len(calls[pl[1]].handed) = 2
    /\ \E p1, p2 \in RunPlaces(FrameBefore(pl)) :
         /\ p1 \in ChangedRuns(pl)
         /\ p2 \notin ChangedRuns(pl)
         /\ FiringIn(pl, FrameBefore(pl)[p2[1]][p2[2]].text) # {}
         /\ FrameBefore(pl)[p1[1]][p1[2]].text = <<"a", "b">>
         /\ calls[pl[1]].handed = << <<<<"a">>, <<"b">>>>, <<<<"b">>, <<"b">>>> >>

\* new_full_text and applied_replacements as Phase B has them before its
\* update: those of the literal pass over the full text, or those of the
\* fuzzy fallback when the literal pass applied no pair
AppliedOn(full_text, pairs) ==
  LET lit == LiteralPass(full_text, pairs)
      fz == apply_fuzzy_replacements(full_text, pairs)
  IN IF lit.applied # <<>>
     THEN [text |-> lit.text, applied |-> lit.applied]
     ELSE [text |-> fz.new_text, applied |-> fz.replacements]

\* C19: a frame call that enters Phase B returns the number of pairs in
\* the applied list, of the literal pass or else of the fuzzy fallback,
\* when it rewrites the frame; when that list is empty or the resulting
\* full text equals the original full text it leaves the frame untouched
\* and returns 0.
C19_CountIsAppliedPairs ==
  \A pl \in FramePlaces :
    (LogAt(pl).phaseB /\ input_file[pl[1]][pl[2]].kind = "text") =>
      LET full_text == FrameText(FrameBefore(pl))
          out == AppliedOn(full_text, calls[pl[1]].handed)
      IN IF out.applied # <<>> /\ out.text # full_text
         THEN /\ LogAt(pl).cleared
              /\ ReturnedAt(pl) = Len(out.applied)
              /\ FrameAfter(pl) # FrameBefore(pl)
         ELSE /\ ~LogAt(pl).cleared
              /\ ReturnedAt(pl) = 0
              /\ FrameAfter(pl) = FrameBefore(pl)

\* Witness of C19: a frame was rewritten after two pairs were applied to
\* its full text, one of them without changing it, and 2 was returned.
C19_Witness ==
  \E pl \in FramePlaces :
    /\ LogAt(pl).cleared
    /\ ReturnedAt(pl) = 2
    /\ FrameText(FrameBefore(pl)) = <<"a", "b", "b">>
    /\ FrameText(FrameAfter(pl)) = <<"c", "b">>

\* The style fields of style that are not None are those of the run
CarriesStyle(run, style) ==
  /\ style.size # None => run.size = style.size
  /\ style.name # None => run.name = style.name
  /\ style.bold # None => run.bold = style.bold
  /\ style.italic # None => run.italic = style.italic
  /\ style.color # None => run.color = style.color

\* C20: a Phase B rewrite leaves the frame with one paragraph of a single
\* run that holds exactly the new full text and carries each style field
\* that was not None on the first run of the first paragraph before; if
\* that paragraph had no run, the run has no style.
C20_RewriteSingleStyledRun ==
  \A pl \in FramePlaces :
    LogAt(pl).cleared =>
      LET new_full_text ==
            AppliedOn(FrameText(FrameBefore(pl)), calls[pl[1]].handed).text
      IN /\ Len(FrameAfter(pl)) = 1
         /\ Len(FrameAfter(pl)[1]) = 1
         /\ FrameAfter(pl)[1][1].text = new_full_text
         /\ IF FrameBefore(pl)[1] # <<>>
            THEN CarriesStyle(FrameAfter(pl)[1][1],
                              StyleOf(FrameBefore(pl)[1][1]))
            ELSE StyleOf(FrameAfter(pl)[1][1]) = PlainStyle

\* Two frames have the same paragraphs with the same number of elements
SameStructure(f, g) ==
  /\ Len(f) = Len(g)
  /\ \A p \in 1..Len(f) : Len(f[p]) = Len(g[p])

\* The runs of the frame at pl that Phase A has no reason to touch: their
\* text is empty or holds the original of no pair handed to the call
QuietRuns(pl) ==
  {pr \in RunPlaces(FrameBefore(pl)) :
     \/ FrameBefore(pl)[pr[1]][pr[2]].text = <<>>
     \/ FiringIn(pl, FrameBefore(pl)[pr[1]][pr[2]].text) = {}}

\* C21: Phase A mutates runs in place.  A frame call that changed a run in
\* Phase A did not rewrite the frame, and a frame that was not rewritten by
\* Phase B has the paragraphs and runs it had before, in the same order,
\* and every run with empty text or whose text holds no pair's original
\* has its text and style unchanged.
C21_PhaseAInPlace ==
  \A pl \in FramePlaces :
    /\ LogAt(pl).phaseA > 0 => ~LogAt(pl).cleared
    /\ ~LogAt(pl).cleared =>
         /\ SameStructure(FrameAfter(pl), FrameBefore(pl))
         /\ \A pr \in QuietRuns(pl) :
              FrameAfter(pl)[pr[1]][pr[2]] = FrameBefore(pl)[pr[1]][pr[2]]

\* Witness of C21: Phase A changed one run of a frame of two runs whose
\* other run is empty.
C21_Witness ==
  \E pl \in FramePlaces :
    /\ LogAt(pl).phaseA > 0
    /\ Cardinality(RunPlaces(FrameBefore(pl))) = 2
    /\ \E p1, p2 \in RunPlaces(FrameBefore(pl)) :
         /\ p1 \in ChangedRuns(pl)
         /\ FrameBefore(pl)[p2[1]][p2[2]].text = <<>>
         /\ p2 \in RunPlaces(FrameAfter(pl))

\* The places <<slide, shape>> of the tables a slide call went through
TablePlaces ==
  {pl \in UNION {{<<k, i>> : i \in 1..Len(calls[k].logs)} : k \in Processed} :
     input_file[pl[1]][pl[2]].kind = "table"}

\* What a frame call on cell j of the table at pl does on its own
CellAlone(pl, j) ==
  _apply_replacements_to_text_frame(input_file[pl[1]][pl[2]].frames[j],
                                    calls[pl[1]].handed)

\* The sum of what the first n cells of the table at pl yield on their
\* own, a cell that fails yielding 0
RECURSIVE SumCells(_, _)
SumCells(pl, n) ==
  IF n = 0 THEN 0
  ELSE (IF CellAlone(pl, n).raised THEN 0 ELSE CellAlone(pl, n).count)
       + SumCells(pl, n - 1)

\* C22: a failure in one cell of a table is caught at that cell.  Every
\* cell of the table is gone through, every cell that does not fail holds
\* what its own frame call leaves, and the table counts the sum of what
\* its cells yield, a failed cell yielding 0.
C22_CellFailureIsolated ==
  \A pl \in TablePlaces :
    LET cells == input_file[pl[1]][pl[2]].frames
    IN /\ Len(calls[pl[1]].logs[pl[2]].frames) = Len(cells)
       /\ calls[pl[1]].logs[pl[2]].count = SumCells(pl, Len(cells))
       /\ \A j \in 1..Len(cells) :
            ~CellAlone(pl, j).raised =>
              presentation[pl[1]][pl[2]].frames[j] = CellAlone(pl, j).frame

\* C23: per-slide failure isolation.  When the call has returned, only a
\* failed load or save has made it unsuccessful, every slide of a loaded
\* document has been gone through, also behind a slide whose processing
\* raised, and a successful call has saved the document.
C23_SlideFailureIsolated ==
  pc = "returned" =>
    /\ ~result.success => result.error \in {"load failed", "save failed"}
    /\ result.error # "load failed" => Len(calls) = Len(input_file)
    /\ result.success => output_file # <<>>

\* The size, font name, bold and italic of a style, without its colour
WithoutColour(style) == [style EXCEPT !.color = None]

\* C24: a failing colour assignment is not fatal.  In a call in which the
\* colour setter raises no shape fails; in a frame that Phase A changed
\* every run holds the text the literal pass gives it, has the size, font
\* name, bold and italic it had, and the changed runs are all counted; in
\* a frame that Phase B rewrote the new text is in place, its first run
\* carries the captured size, font name, bold and italic, and the applied
\* pairs are counted.
C24_ColourFailureNonFatal ==
  color_setter_raises =>
    \A pl \in FramePlaces :
      /\ ~calls[pl[1]].logs[pl[2]].caught
      /\ LogAt(pl).phaseA > 0 =>
           /\ ReturnedAt(pl) = Cardinality(ChangedRuns(pl))
           /\ \A pr \in RunPlaces(FrameBefore(pl)) :
                LET before == FrameBefore(pl)[pr[1]][pr[2]]
                    after == FrameAfter(pl)[pr[1]][pr[2]]
                IN /\ after.text =
                        LiteralPass(before.text, calls[pl[1]].handed).text
                   /\ WithoutColour(StyleOf(after))
                        = WithoutColour(StyleOf(before))
      /\ LogAt(pl).cleared =>
           LET out == AppliedOn(FrameText(FrameBefore(pl)),
                                calls[pl[1]].handed)
           IN /\ FrameText(FrameAfter(pl)) = out.text
              /\ ReturnedAt(pl) = Len(out.applied)
              /\ CarriesStyle(FrameAfter(pl)[1][1],
                              WithoutColour(StyleOf(FrameBefore(pl)[1][1])))

\* Witness of C24: in a call in which the colour setter raises, Phase A
\* changed both runs of a frame, one of them coloured, and Phase B rewrote
\* a frame whose first run was coloured and of size 24: the new run has
\* the size and no colour.
C24_Witness ==
  /\ color_setter_raises
  /\ \E pl \in FramePlaces :
       /\ LogAt(pl).phaseA = 2
       /\ Cardinality(ChangedRuns(pl)) = 2
       /\ FrameBefore(pl)[1][2].color = "FF0000"
  /\ \E pl \in FramePlaces :
       /\ LogAt(pl).cleared
       /\ FrameBefore(pl)[1][1].color = "FF0000"
       /\ FrameAfter(pl)[1][1].color = None
       /\ FrameAfter(pl)[1][1].size = "24"

\* The pairs whose original is not the empty string
NonEmptyPairs(pairs) == SelectSeq(pairs, LAMBDA pair : pair[1] # <<>>)

\* C25: a pair whose original is the empty string never takes effect.  A
\* frame call leaves the frame, returns the count and applies the pairs
\* that it would without the pairs of empty original, in Phase A and in
\* Phase B, and apply_fuzzy_replacements returns the text and the applied
\* list that it would without them, a list that holds no such pair.
C25_EmptyOriginalNoEffect ==
  /\ \A pl \in FramePlaces :
       LET r == _apply_replacements_to_text_frame(
                  FrameBefore(pl), NonEmptyPairs(calls[pl[1]].handed))
       IN /\ FrameAfter(pl) = r.frame
          /\ ReturnedAt(pl) = r.count
          /\ LogAt(pl) = r.log
  /\ fuzzy_out # <<>> =>
       LET r == apply_fuzzy_replacements(fuzzy_text,
                                         NonEmptyPairs(fuzzy_pairs))
       IN /\ fuzzy_out[1].new_text = r.new_text
          /\ fuzzy_out[1].replacements = r.replacements
          /\ fuzzy_out[1].replacements = NonEmptyPairs(r.replacements)

\* Witness of C25: a frame whose runs hold "a" and "b" was rewritten by the
\* Phase B literal pass under the pair ("ab", "c") and a pair of empty
\* original, and 1 was returned.
C25_Witness ==
  \E pl \in FramePlaces :
    /\ LogAt(pl).cleared
    /\ LogAt(pl).literal = 1
    /\ ReturnedAt(pl) = 1
    /\ Len(calls[pl[1]].handed) = 2
    /\ calls[pl[1]].handed[2][1] = <<>>
    /\ FrameText(FrameAfter(pl)) = <<"c">>

\* The detections the analyzer found for the slide of a history entry:
\* those of the response it returned when the slide has an image and text
FoundFor(a) ==
  IF a.image /\ a.text_content # <<>> /\ a.outcome.kind = "response"
  THEN a.outcome.detections ELSE <<>>

\* The iterations of the analysis loop that found no detection
Absent == {i \in 1..Len(analyses) : FoundFor(analyses[i]) = <<>>}

\* C26: absence of detections is not an error.  A slide without image,
\* without text content, or whose analysis raised or returned nothing has
\* an empty detection list; the loop goes through every slide; the
\* replacement step is run and counts zero for such a slide, and the
\* report is built with no detection for it.
C26_AbsenceIsZeroDetections ==
  /\ \A i \in Absent :
       /\ analyses[i].slide_number \in DOMAIN san_detections
       /\ DetectionList(san_detections[analyses[i].slide_number]) = <<>>
  /\ san_pc \in {"replace", "returned"} =>
       /\ Len(analyses) = Len(input_file)
       /\ \A i \in 1..Len(analyses) :
            DetectionList(san_detections[analyses[i].slide_number])
              = FoundFor(analyses[i])
  /\ san_pc = "returned" =>
       /\ pc = "returned"
       /\ report # <<>>
       /\ \A i \in Absent :
            LET n == analyses[i].slide_number
            IN /\ all_detections[n] = <<>>
               /\ n <= Len(calls) => calls[n].count = 0
               /\ result.success => result.replacements_by_slide[n] = 0
               /\ report[1].detections_by_slide[n] = <<>>

\* Witness of C26: the first slide had no image, the analysis of the
\* second raised, the third slide's detection was replaced, the file was
\* saved and the report built.
C26_Witness ==
  /\ san_pc = "returned"
  /\ result.success
  /\ Len(analyses) >= 2
  /\ ~analyses[1].image
  /\ FoundFor(analyses[Len(analyses)]) # <<>>
  /\ result.replacements_by_slide[1] = 0
  /\ result.replacements_by_slide[Len(analyses)] = 1
  /\ \E i \in 1..Len(analyses) : analyses[i].outcome.kind \in {"raises", "none"}
  /\ report[1].total_detections >= 1

\* The number of detections found in the first n iterations of the
\* analysis loop
RECURSIVE SumFound(_)
SumFound(n) ==
  IF n = 0 THEN 0 ELSE Len(FoundFor(analyses[n])) + SumFound(n - 1)

\* C30: report consistency.  In the report total_detections is the sum of
\* the lengths of the detection lists of all slides, the values of
\* categories_summary sum to it, detections_by_slide has one entry for each
\* analysed slide and total_slides is the number of parsed slides.
C30_ReportConsistent ==
  report # <<>> =>
    /\ report[1].total_detections = SumFound(Len(analyses))
    /\ SumValues(report[1].categories_summary,
                 DOMAIN report[1].categories_summary)
         = report[1].total_detections
    /\ DOMAIN report[1].detections_by_slide =
         {analyses[i].slide_number : i \in 1..Len(analyses)}
    /\ \A i \in 1..Len(analyses) :
         report[1].detections_by_slide[analyses[i].slide_number]
           = FoundFor(analyses[i])
    /\ report[1].total_slides = Len(slides_data)
    /\ report[1].total_slides = Len(input_file)

\* Witness of C30: a report of three detections in two categories, found on
\* two slides.
C30_Witness ==
  /\ report # <<>>
  /\ report[1].total_detections = 3
  /\ report[1].categories_summary = ("PII" :> 2 @@ "financial" :> 1)
  /\ Cardinality({k \in DOMAIN report[1].detections_by_slide :
                    report[1].detections_by_slide[k] # <<>>}) = 2

\* No replacement text of the pairs holds the original of a pair
ReplacementsClean(pairs) ==
  \A i, j \in 1..Len(pairs) :
    pairs[j][1] # <<>> => ~Contains(pairs[i][2], pairs[j][1])

\* C27: redaction completeness.  After a frame call that did not fail,
\* with pairs whose replacement texts hold no pair's original, no
\* non-empty original that occurred in the full text of the frame before
\* the call occurs in it after the call.
C27_RedactionComplete ==
  \A pl \in FramePlaces :
    (~calls[pl[1]].logs[pl[2]].caught
     /\ ReplacementsClean(calls[pl[1]].handed)) =>
      \A i \in 1..Len(calls[pl[1]].handed) :
        LET original == calls[pl[1]].handed[i][1]
        IN (original # <<>> /\ Contains(FrameText(FrameBefore(pl)), original))
             => ~Contains(FrameText(FrameAfter(pl)), original)

\* The texts of the runs of a frame
TextsOf(frame) ==
  [p \in 1..Len(frame) |-> [r \in 1..Len(frame[p]) |-> frame[p][r].text]]

\* No run text of shape i of slide k differs from what it was
ShapeTextUnchanged(k, i) ==
  /\ Len(presentation[k][i].frames) = Len(input_file[k][i].frames)
  /\ \A j \in 1..Len(input_file[k][i].frames) :
       TextsOf(presentation[k][i].frames[j])
         = TextsOf(input_file[k][i].frames[j])

\* C28: count and mutation agree.  A shape for which
\* _apply_replacements_to_shape returned 0, also after it caught an
\* exception, has no run text changed, and a slide that counts 0 has its
\* text unchanged.
C28_ZeroCountNoMutation ==
  \A k \in Processed :
    /\ \A i \in 1..Len(calls[k].logs) :
         calls[k].logs[i].count = 0 => ShapeTextUnchanged(k, i)
    /\ (calls[k].called /\ calls[k].count = 0) =>
         \A i \in 1..Len(input_file[k]) : ShapeTextUnchanged(k, i)

\* The text in which every match of the flexible pattern of a pair's
\* normalized original is replaced by the pair's replacement as it stands
VerbatimSub(text, pair) ==
  SubFrom(text, AllFalse(Len(text)),
          create_flexible_pattern(normalize_text_for_matching(pair[1])),
          pair[2], 1).text

\* C29: fuzzy substitution is literal and total.  A call of
\* apply_fuzzy_replacements does not raise, and every iteration that takes
\* the flexible branch leaves the text in which each match is replaced by
\* the replacement string verbatim, backslashes included.
C29_FuzzyLiteralAndTotal ==
  fuzzy_out # <<>> =>
    /\ ~fuzzy_out[1].raised
    /\ \A i \in 1..Len(fuzzy_out[1].steps) :
         fuzzy_out[1].steps[i].branch = "flexible" =>
           fuzzy_out[1].steps[i].after
             = VerbatimSub(fuzzy_out[1].steps[i].before,
                           fuzzy_out[1].steps[i].pair)

=============================================================================
